---------------------------- MODULE Spec2Model ----------------------------
(***************************************************************************)
(* Model of the event ingestion, routing and debounce pipeline of          *)
(* pancake_bot: ReceiverService (update router + debounce scheduler),      *)
(* PageEventHandler (reconfiguration controller) and                       *)
(* PancakeWebSocketClient (connection manager).                            *)
(*                                                                         *)
(* The program runs on one asyncio event loop.  Every action below is one  *)
(* atomic run of a task between two suspension points (await).  Time is    *)
(* kept as ages: every running timer and every stored timestamp carries    *)
(* the number of seconds elapsed since it was set, advanced by Tick and    *)
(* saturating at the constant it is compared with.                         *)
(*                                                                         *)
(* Three specifications share the state:                                   *)
(*   SpecDebounce  _schedule_message_with_debounce called directly         *)
(*   SpecRouter    handle_conversation_update and everything below it      *)
(*   SpecConn      start(), the reload procedure and the connect loops     *)
(***************************************************************************)
EXTENDS Integers, Sequences, FiniteSets, TLC

(***************************************************************************)
(* Bounds of the model                                                     *)
(***************************************************************************)
MaxSched == 3

MaxUpdates == 2

(***************************************************************************)
(* Program constants                                                       *)
(***************************************************************************)
DedupWindow == 3

DebounceDelay == 5

None == 0

ConvIds == {"c1", "c2"}

Min(a, b) == IF a < b THEN a ELSE b

\* a Python dict is a function whose domain is the set of its keys
EmptyDict == [x \in {} |-> None]

Put(d, k, v) == [x \in DOMAIN d \cup {k} |-> IF x = k THEN v ELSE d[x]]

(***************************************************************************)
(* Text.  A name is a sequence of characters, a snippet a sequence of      *)
(* tokens; str.lower(), the substring test "a in b" and str() of a small   *)
(* number are computed on them.                                            *)
(***************************************************************************)
LowerChar(c) ==
    CASE c = "A" -> "a" [] c = "H" -> "h" [] c = "I" -> "i" [] c = "N" -> "n"
      [] c = "O" -> "o" [] c = "P" -> "p" [] c = "S" -> "s" [] c = "V" -> "v"
      [] OTHER -> c

Lower(w) == [i \in 1..Len(w) |-> LowerChar(w[i])]

In(a, b) == \E i \in 0..(Len(b) - Len(a)) : SubSeq(b, i + 1, i + Len(a)) = a

Str(n) == CASE n = 1 -> "1" [] n = 2 -> "2" [] n = 3 -> "3" [] OTHER -> "0"

StrAll(ns) == [i \in 1..Len(ns) |-> Str(ns[i])]

InList(x, xs) == \E i \in 1..Len(xs) : xs[i] = x

(***************************************************************************)
(* Configuration snapshots that get_all_active_pages can return, and the   *)
(* conversation updates the platform can send.                             *)
(***************************************************************************)
Shop == <<"S", "h", "o", "p">>

TagAiSale == [tag_name |-> <<"A", "I", " ", "S", "a", "l", "e">>, tag_id |-> "1"]

TagSupport ==
    [tag_name |-> <<"N", "V", " ", "h", "o", " ", "t", "r", "o">>, tag_id |-> "2"]

TagOrder == [tag_name |-> <<"O", "r", "d", "e", "r">>, tag_id |-> "3"]

PageInfo(name, tags) == [page_name |-> name, tags |-> tags]

Snapshots ==
    { EmptyDict,
      Put(EmptyDict, "1", PageInfo(Shop, <<TagAiSale, TagSupport>>)),
      Put(Put(EmptyDict, "1", PageInfo(<<>>, <<TagOrder, TagSupport>>)),
          "2", PageInfo(Shop, <<>>)) }

SenderNames ==
    { <<"S", "H", "O", "P">>,
      <<"s", "h", "o", "p", "p", "e", "r">>,
      <<"A", "n">>,
      <<>> }

Snippets == { <<"hi">>, <<"[Photo]", "hi">>, <<"[Video]">> }

\* every kind of update for conversation c1, and comments for c2
Events ==
    [conv : {"c1"}, page_id : {1, 2}, sender_name : SenderNames,
     type : {"INBOX", "COMMENT"}, snippet : Snippets, tags : {<<>>, <<2>>}]
    \cup
    [conv : {"c2"}, page_id : {1}, sender_name : {<<"A", "n">>},
     type : {"COMMENT"}, snippet : {<<"hi">>}, tags : {<<>>}]

(***************************************************************************)
(* Receiver state                                                          *)
(***************************************************************************)
VARIABLES
    page_configs,     \* ReceiverService.page_configs: page id -> page info
    last_processed,   \* ReceiverService.last_processed: conversation -> entry
    pending_tasks,    \* ReceiverService.pending_tasks: conversation -> task
    tasks,            \* every delayed_process task ever created, by task id
    burst,            \* history: schedule calls per key before its first fire
    cleaned,          \* history: cleanup() has run
    handlers,         \* the suspended handle_conversation_update runs
    finished,         \* history: the handler that returned last
    arrivals,         \* history: number of updates handled so far
    prev_arrival      \* history: the previous update of each conversation

recvVars == <<page_configs, last_processed, pending_tasks, tasks, burst, cleaned,
              handlers, finished, arrivals, prev_arrival>>

(***************************************************************************)
(* Connection state                                                        *)
(***************************************************************************)
VARIABLES
    clients,          \* every PancakeWebSocketClient constructed, each with
                      \* the task that runs its connect()
    ws_client,        \* ReceiverService.ws_client: a client or None
    recv_task,        \* ReceiverService._connect_task: a client's task or None
    handler_task,     \* PageEventHandler._connect_task: a client's task or None
    reload_lock,      \* PageEventHandler._reload_lock
    reloads,          \* the runs of _graceful_reload, in the order triggered
    start_pc          \* position of ReceiverService.start()

connVars == <<clients, ws_client, recv_task, handler_task, reload_lock, reloads,
              start_pc>>

(***************************************************************************)
(* Event bus state (PageEventBus) and frame dispatch state                 *)
(***************************************************************************)
VARIABLES
    subscribers,         \* PageEventBus._subscribers: kind -> listeners
    global_subscribers,  \* PageEventBus._global_subscribers
    emits                \* the calls of emit(), in the order they were made

busVars == <<subscribers, global_subscribers, emits>>

VARIABLES
    dispatches,          \* the tasks made by the read loop, one for each
                         \* inbound frame (_safe_handle_message)
    sends                \* the calls of _send_message made from outside
                         \* connect(), with what each of them did

wireVars == <<dispatches, sends>>

VARIABLES
    send_results         \* history: for each delayed task, the payload that
                         \* _process_single_message was called with and what
                         \* its call of _send_to_ai did

sendVars == <<send_results>>

VARIABLES
    notified             \* history: the number of calls of handle_page_event

eventVars == <<notified>>

VARIABLES
    token_configs,       \* PancakeService.page_configs of the receiver's
                         \* pancake_service: page id -> token record
    page_token           \* history: the last call of _get_page_token, with
                         \* the page id asked for and the token returned

tokenVars == <<token_configs, page_token>>

VARIABLES
    cleanup_call         \* the call of ReceiverService.cleanup() made by
                         \* lifespan at shutdown: the await it is suspended
                         \* in, the client its close() works on and, as
                         \* history, the tasks pending_tasks held at its start

shutdownVars == <<cleanup_call>>

otherVars == <<busVars, wireVars, sendVars, eventVars, tokenVars, shutdownVars>>

vars == <<recvVars, connVars, otherVars>>

TaskIds == 1..Len(tasks)

(***************************************************************************)
(* asyncio.Task.done() and asyncio.Task.cancel() on a delayed task.        *)
(* cancel() only requests the cancellation: the CancelledError is thrown   *)
(* into the coroutine the next time the event loop runs the task.          *)
(***************************************************************************)
TaskDone(t) == tasks[t].pc = "done"

\* cancelled_at is history: where the task was when cancel() was first called
CancelTask(ts, t) ==
    [ts EXCEPT ![t].cancel_req = TRUE,
               ![t].cancelled_at = IF @ = "" THEN ts[t].pc ELSE @]

NewTask(k, p, n) ==
    [key |-> k, payload |-> p, seq |-> n, pc |-> "created", elapsed |-> 0,
     cancel_req |-> FALSE, cancelled_at |-> "",
     invoked |-> FALSE, interrupted |-> FALSE]

AnyFired(k) == \E t \in TaskIds : tasks[t].key = k /\ tasks[t].invoked

NumScheduled(k) == Cardinality({t \in TaskIds : tasks[t].key = k})

(***************************************************************************)
(* _schedule_message_with_debounce, lines 210-239: cancel the task stored  *)
(* under the key if it is not done, create the new task and store it.      *)
(* The body has no suspension point, so it is one atomic step.             *)
(***************************************************************************)
CancelOld(k) ==
    IF pending_tasks[k] # None /\ ~TaskDone(pending_tasks[k])
    THEN CancelTask(tasks, pending_tasks[k])
    ELSE tasks

ScheduleMessageWithDebounce(k, p) ==
    /\ tasks' = Append(CancelOld(k), NewTask(k, p, NumScheduled(k) + 1))
    /\ pending_tasks' = [pending_tasks EXCEPT ![k] = Len(tasks) + 1]
    /\ burst' = IF AnyFired(k) THEN burst ELSE [burst EXCEPT ![k] = @ + 1]

Schedule(k) ==
    /\ Len(tasks) < MaxSched
    /\ ScheduleMessageWithDebounce(k, Len(tasks) + 1)
    /\ UNCHANGED connVars
    /\ UNCHANGED otherVars
    /\ UNCHANGED <<page_configs, last_processed, cleaned, handlers, finished, arrivals, prev_arrival>>

(***************************************************************************)
(* delayed_process, lines 221-232.                                         *)
(***************************************************************************)
\* variant: the finally block empties the whole map
FinallyClearsAll(k) == [c \in ConvIds |-> None]

\* the finally block, lines 229-232
Finally(k) == IF pending_tasks[k] # None
              THEN [pending_tasks EXCEPT ![k] = None]
              ELSE pending_tasks

\* First run of the task.  A task cancelled before it ever ran ends without
\* entering the coroutine body: neither the try nor the finally executes.
TaskStart(t) ==
    /\ tasks[t].pc = "created"
    /\ IF tasks[t].cancel_req
       THEN tasks' = [tasks EXCEPT ![t].pc = "done"]
       ELSE tasks' = [tasks EXCEPT ![t].pc = "sleeping", ![t].elapsed = 0]
    /\ UNCHANGED connVars
    /\ UNCHANGED otherVars
    /\ UNCHANGED <<page_configs, last_processed, pending_tasks, burst, cleaned,
                   handlers, finished, arrivals, prev_arrival>>

\* The task is resumed at "await asyncio.sleep(5.0)": by a requested
\* cancellation (CancelledError, re-raised, finally runs) ...
TaskCancelledInSleep(t) ==
    /\ tasks[t].pc = "sleeping"
    /\ tasks[t].cancel_req
    /\ tasks' = [tasks EXCEPT ![t].pc = "done", ![t].elapsed = 0]
    /\ pending_tasks' = Finally(tasks[t].key)
    /\ UNCHANGED connVars
    /\ UNCHANGED otherVars
    /\ UNCHANGED <<page_configs, last_processed, burst, cleaned, handlers, finished, arrivals, prev_arrival>>

\* ... or by the timer, and then it calls _process_single_message, which
\* suspends in its first collaborator call.
SleepOver(t) == tasks[t].elapsed >= DebounceDelay

\* variant: the timer wins over a cancellation requested during the sleep
TaskFireIgnoringCancel(t) ==
    /\ tasks[t].pc = "sleeping"
    /\ SleepOver(t)
    /\ tasks' = [tasks EXCEPT ![t].pc = "processing", ![t].elapsed = 0,
                              ![t].invoked = TRUE]
    /\ UNCHANGED connVars
    /\ UNCHANGED otherVars
    /\ UNCHANGED <<page_configs, last_processed, pending_tasks, burst, cleaned,
                   handlers, finished, arrivals, prev_arrival>>

TaskFire(t) ==
    /\ tasks[t].pc = "sleeping"
    /\ ~tasks[t].cancel_req
    /\ SleepOver(t)
    /\ tasks' = [tasks EXCEPT ![t].pc = "processing", ![t].elapsed = 0,
                              ![t].invoked = TRUE]
    /\ UNCHANGED connVars
    /\ UNCHANGED otherVars
    /\ UNCHANGED <<page_configs, last_processed, pending_tasks, burst, cleaned,
                   handlers, finished, arrivals, prev_arrival>>

\* _process_single_message returns (it catches every Exception), or a
\* requested cancellation interrupts it; either way the finally block runs.
TaskFinish(t) ==
    /\ tasks[t].pc = "processing"
    /\ tasks' = [tasks EXCEPT ![t].pc = "done",
                              ![t].interrupted = tasks[t].cancel_req]
    /\ pending_tasks' = Finally(tasks[t].key)
    /\ UNCHANGED connVars
    /\ UNCHANGED otherVars
    /\ UNCHANGED <<page_configs, last_processed, burst, cleaned, handlers, finished, arrivals, prev_arrival>>

(***************************************************************************)
(* The same step with what the call of _send_to_ai did, lines 243-250:     *)
(* "True" when it returned True, "None" when it caught an Exception of a   *)
(* collaborator (lines 282-283, logged at line 248), "CancelledError" when *)
(* a requested cancellation was thrown into its await; the finally block   *)
(* of lines 229-232 runs in each case.                                     *)
(***************************************************************************)
SendResults == {"True", "None", "CancelledError"}

NoResult == [value |-> "", payload |-> None]

\* variant: the key is removed only after a dispatch that returned True
AfterDispatchOnSuccess(k, r) == IF r = "True" THEN Finally(k) ELSE pending_tasks

AfterDispatch(k, r) == Finally(k)

ProcessSingleMessage(t, r) ==
    /\ tasks[t].pc = "processing"
    /\ (r = "CancelledError") = tasks[t].cancel_req
    /\ tasks' = [tasks EXCEPT ![t].pc = "done",
                              ![t].interrupted = tasks[t].cancel_req]
    /\ pending_tasks' = AfterDispatch(tasks[t].key, r)
    /\ send_results' = [send_results EXCEPT
                            ![t] = [value |-> r, payload |-> tasks[t].payload]]
    /\ UNCHANGED connVars
    /\ UNCHANGED <<busVars, wireVars, eventVars, tokenVars, shutdownVars>>
    /\ UNCHANGED <<page_configs, last_processed, burst, cleaned, handlers, finished, arrivals, prev_arrival>>

TaskStep(t) ==
    \/ TaskStart(t)
    \/ TaskCancelledInSleep(t)
    \/ TaskFire(t)
    \/ TaskFinish(t)

(***************************************************************************)
(* ReceiverService.cleanup, lines 58-63: cancel every pending task that is *)
(* not done and clear the map.                                             *)
(***************************************************************************)
RECURSIVE CancelAll(_, _)
CancelAll(ts, ids) ==
    IF ids = {} THEN ts
    ELSE LET t == CHOOSE x \in ids : TRUE
         IN  CancelAll(IF ts[t].pc # "done" THEN CancelTask(ts, t) ELSE ts,
                       ids \ {t})

Cleanup ==
    /\ ~cleaned
    /\ tasks' = CancelAll(tasks, {pending_tasks[k] : k \in ConvIds} \ {None})
    /\ pending_tasks' = [k \in ConvIds |-> None]
    /\ cleaned' = TRUE
    /\ UNCHANGED connVars
    /\ UNCHANGED otherVars
    /\ UNCHANGED <<page_configs, last_processed, burst, handlers, finished, arrivals, prev_arrival>>


(***************************************************************************)
(* handle_conversation_update, lines 104-208.  Each frame's handler is a   *)
(* task of its own; handlers holds the suspended ones in arrival order.    *)
(* A handler record holds the local variables that decide what the code   *)
(* does next, the await it is suspended in (pc) and, as history, the       *)
(* collaborator calls it has made.  When a handler returns, its history,   *)
(* with the outcome, becomes finished.                                     *)
(***************************************************************************)
NoTag == ""

NewHandler(ev, n) ==
    [uid |-> n, pc |-> "start", outcome |-> "", conv |-> ev.conv,
     page_id |-> ev.page_id,
     snippet |-> ev.snippet, tags |-> StrAll(ev.tags), support_tag_id |-> NoTag,
     add_ai |-> 0, add_support |-> 0, notify |-> 0, persist |-> 0, sched |-> 0,
     add_ai_failed |-> FALSE]

NoHandler == [outcome |-> "", add_ai |-> 0, add_support |-> 0, notify |-> 0,
              persist |-> 0, sched |-> 0]

\* a return: pc is "done", and only the history of the handler is kept
Return(h, outcome) == [h EXCEPT !.pc = "done", !.outcome = outcome]

History(h) ==
    [outcome |-> h.outcome, add_ai |-> h.add_ai, add_support |-> h.add_support,
     notify |-> h.notify, persist |-> h.persist, sched |-> h.sched]

\* variant: the window includes its end point
IsDuplicateInclusive(d, conv, content) ==
    /\ conv \in DOMAIN d
    /\ d[conv].content = content
    /\ d[conv].age <= DedupWindow

\* line 129; age is current_time - last_data[1]
IsDuplicate(d, conv, content) ==
    /\ conv \in DOMAIN d
    /\ d[conv].content = content
    /\ d[conv].age < DedupWindow

\* line 134, reached from the check of line 129 without an await (variant:
\* the entry is not written before the handler suspends)
OverwriteAfterAwait(d, conv, content) == d
Overwrite(d, conv, content) == Put(d, conv, [content |-> content, age |-> 0])

\* lines 129-131: a suppressed update returns before line 134 (variant: it
\* refreshes the entry)
RefreshEntry(d, conv, content) == Overwrite(d, conv, content)
KeepEntry(d, conv, content) == d

\* line 145
PageNames(cfg) == {cfg[p].page_name : p \in DOMAIN cfg}

\* variant: the names are compared for equality
IsFromAgentEqual(sender_name, page_names) ==
    \E bot_name \in page_names :
        bot_name # <<>> /\ Lower(bot_name) = Lower(sender_name)

\* line 146
IsFromAgent(sender_name, page_names) ==
    \E bot_name \in page_names :
        bot_name # <<>> /\ In(Lower(bot_name), Lower(sender_name))

AiSaleName == <<"a", "i", " ", "s", "a", "l", "e">>

SupportName == <<"n", "v", " ", "h", "o", " ", "t", "r", "o">>

\* lines 162-166
RECURSIVE FindTags(_, _, _)
FindTags(page_tags, i, found) ==
    IF i > Len(page_tags) THEN found
    ELSE LET tag == page_tags[i]
         IN  FindTags(page_tags, i + 1,
                 IF Lower(tag.tag_name) = AiSaleName
                 THEN [found EXCEPT !.ai_sale_tag_id = tag.tag_id]
                 ELSE IF Lower(tag.tag_name) = SupportName
                      THEN [found EXCEPT !.support_tag_id = tag.tag_id]
                      ELSE found)

\* lines 150-167
ResolveTags(cfg, page_id) ==
    IF Str(page_id) \in DOMAIN cfg
    THEN FindTags(cfg[Str(page_id)].tags, 1,
                  [ai_sale_tag_id |-> NoTag, support_tag_id |-> NoTag])
    ELSE [ai_sale_tag_id |-> NoTag, support_tag_id |-> NoTag]

\* line 179
HasMediaMarker(snippet) == In(<<"[Photo]">>, snippet) \/ In(<<"[Video]">>, snippet)

\* variant: the marker check of line 179 comes before the hand-off check
FromHandOffMarkerFirst(h) ==
    IF HasMediaMarker(h.snippet)
    THEN IF h.support_tag_id # NoTag
         THEN [h EXCEPT !.pc = "add_support_tag", !.add_support = @ + 1]
         ELSE [h EXCEPT !.pc = "notify", !.notify = @ + 1]
    ELSE IF h.support_tag_id # NoTag /\ InList(h.support_tag_id, h.tags)
         THEN Return(h, "handoff")
         ELSE [h EXCEPT !.pc = "create_or_get", !.persist = @ + 1]

\* variant: the escalation forgets the support tag
FromHandOffWithoutTag(h) ==
    IF h.support_tag_id # NoTag /\ InList(h.support_tag_id, h.tags)
    THEN Return(h, "handoff")
    ELSE IF HasMediaMarker(h.snippet)
         THEN [h EXCEPT !.pc = "notify", !.notify = @ + 1]
         ELSE [h EXCEPT !.pc = "create_or_get", !.persist = @ + 1]

\* lines 173-198: from the hand-off check to the next await
FromHandOff(h) ==
    IF h.support_tag_id # NoTag /\ InList(h.support_tag_id, h.tags)
    THEN Return(h, "handoff")
    ELSE IF HasMediaMarker(h.snippet)
         THEN IF h.support_tag_id # NoTag
              THEN [h EXCEPT !.pc = "add_support_tag", !.add_support = @ + 1]
              ELSE [h EXCEPT !.pc = "notify", !.notify = @ + 1]
         ELSE [h EXCEPT !.pc = "create_or_get", !.persist = @ + 1]

\* variant: the type filter comes after the add-tag call of step 4
FromTypeFilterAfterTags(h, ev, cfg) ==
    IF IsFromAgent(ev.sender_name, PageNames(cfg)) THEN Return(h, "agent")
    ELSE LET found == ResolveTags(cfg, ev.page_id)
             h1 == [h EXCEPT !.support_tag_id = found.support_tag_id]
         IN  IF found.ai_sale_tag_id # NoTag
             THEN [h1 EXCEPT !.pc = "add_ai_tag", !.add_ai = @ + 1]
             ELSE IF ev.type # "INBOX" THEN Return(h, "not_inbox")
             ELSE FromHandOff(h1)

\* lines 140-171: from the type filter to the next await
FromTypeFilter(h, ev, cfg) ==
    IF ev.type # "INBOX" THEN Return(h, "not_inbox")
    ELSE IF IsFromAgent(ev.sender_name, PageNames(cfg)) THEN Return(h, "agent")
    ELSE LET found == ResolveTags(cfg, ev.page_id)
             h1 == [h EXCEPT !.support_tag_id = found.support_tag_id]
         IN  IF found.ai_sale_tag_id # NoTag
             THEN [h1 EXCEPT !.pc = "add_ai_tag", !.add_ai = @ + 1]
             ELSE FromHandOff(h1)

\* lines 126-171: from the dedup check to the first await
FromDedup(ev, n) ==
    IF IsDuplicate(last_processed, ev.conv, ev.snippet)
    THEN Return(NewHandler(ev, n), "suppressed")
    ELSE FromTypeFilter(NewHandler(ev, n), ev, page_configs)

Remove(q, i) == SubSeq(q, 1, i - 1) \o SubSeq(q, i + 1, Len(q))

\* the handler at position i (a new one at the end) goes on as record h:
\* suspended in its next await, or returned
Continue(i, h) ==
    IF h.pc = "done"
    THEN /\ handlers' = Remove(handlers, i)
         /\ finished' = History(h)
    ELSE /\ handlers' = IF i > Len(handlers) THEN Append(handlers, h)
                        ELSE [handlers EXCEPT ![i] = h]
         /\ UNCHANGED finished

\* lines 104-171: a frame's handler task runs from its start to its first
\* await.  Handler tasks start in the order the frames were read.
HandleConversationUpdate(ev) ==
    /\ arrivals < MaxUpdates
    /\ arrivals' = arrivals + 1
    /\ last_processed' =
          IF IsDuplicate(last_processed, ev.conv, ev.snippet)
          THEN KeepEntry(last_processed, ev.conv, ev.snippet)
          ELSE Overwrite(last_processed, ev.conv, ev.snippet)
    /\ Continue(Len(handlers) + 1, FromDedup(ev, arrivals + 1))
    /\ prev_arrival' = Put(prev_arrival, ev.conv,
          [content |-> ev.snippet, age |-> 0,
           passed |-> ~IsDuplicate(last_processed, ev.conv, ev.snippet)])
    /\ UNCHANGED connVars
    /\ UNCHANGED otherVars
    /\ UNCHANGED <<page_configs, pending_tasks, tasks, burst, cleaned>>

HandlerIds == 1..Len(handlers)

\* variant: a failed add-tag call ends the routing of the update
AfterAiTagFatal(h, ok) == IF ok THEN FromHandOff(h) ELSE Return(h, "error")

\* line 171: the value add_tags returns is not read
AfterAiTag(h, ok) == FromHandOff(h)

\* add_tags for the AI sale tag returned True (ok), or False after
\* _manage_tags found no page token, got a status other than 200 or used up
\* its retries (pancake_api.py, lines 286-327); add_ai_failed is history
AfterAddAiTag(i, ok) ==
    /\ handlers[i].pc = "add_ai_tag"
    /\ Continue(i, AfterAiTag([handlers[i] EXCEPT !.add_ai_failed = ~ok], ok))
    /\ UNCHANGED connVars
    /\ UNCHANGED otherVars
    /\ UNCHANGED <<page_configs, last_processed, pending_tasks, tasks, burst,
                   cleaned, prev_arrival, arrivals>>

\* add_tags for the support tag returned, lines 183-185
AfterAddSupportTag(i) ==
    /\ handlers[i].pc = "add_support_tag"
    /\ Continue(i, [handlers[i] EXCEPT !.pc = "notify", !.notify = @ + 1])
    /\ UNCHANGED connVars
    /\ UNCHANGED otherVars
    /\ UNCHANGED <<page_configs, last_processed, pending_tasks, tasks, burst,
                   cleaned, prev_arrival, arrivals>>

\* notify_sale_customer_support returned, line 193
AfterNotify(i) ==
    /\ handlers[i].pc = "notify"
    /\ Continue(i, Return(handlers[i], "escalated"))
    /\ UNCHANGED connVars
    /\ UNCHANGED otherVars
    /\ UNCHANGED <<page_configs, last_processed, pending_tasks, tasks, burst,
                   cleaned, prev_arrival, arrivals>>

\* variant: the result of the persistence call is not checked
HasRecordUnchecked(conversation) == TRUE

\* line 199: conversation_result["conversation"] is a record, or None when
\* find_one found nothing or create_or_get_conversation caught an Exception
\* (conversation_service.py, lines 41-42)
HasRecord(conversation) == conversation

\* create_or_get_conversation returned, lines 196-205; the schedule call has
\* no suspension point and runs in the same step
AfterCreateOrGet(i, conversation) ==
    /\ handlers[i].pc = "create_or_get"
    /\ IF HasRecord(conversation)
       THEN /\ ScheduleMessageWithDebounce(handlers[i].conv, handlers[i].uid)
            /\ Continue(i, Return([handlers[i] EXCEPT !.sched = @ + 1], "scheduled"))
       ELSE /\ Continue(i, Return(handlers[i], "no_conversation"))
            /\ UNCHANGED <<pending_tasks, tasks, burst>>
    /\ UNCHANGED connVars
    /\ UNCHANGED otherVars
    /\ UNCHANGED <<page_configs, last_processed, cleaned, prev_arrival, arrivals>>

\* _init_page_configs, line 95: the snapshot is replaced as a whole
InitPageConfigs(snapshot) ==
    /\ page_configs # snapshot
    /\ page_configs' = snapshot
    /\ UNCHANGED connVars
    /\ UNCHANGED otherVars
    /\ UNCHANGED <<last_processed, pending_tasks, tasks, burst, cleaned,
                   handlers, finished, arrivals, prev_arrival>>

(***************************************************************************)
(* PancakeWebSocketClient and the task that runs its connect().            *)
(* websocket is "none" (None), "open", or "closed" (the object is still    *)
(* assigned but close() has closed it).                                    *)
(***************************************************************************)
MaxReloads == 2
UpdateConversation == "pages:update_conversation"
ReconnectDelay == 5

ClientIds == 1..Len(clients)

BadSnapshot == Put(EmptyDict, "x", PageInfo(Shop, <<>>))

\* what _load_page_configs_from_db returns to start() and to a reload: two
\* pages, or a page whose id is no number
Loadable == {s \in Snapshots : Cardinality(DOMAIN s) = 2} \cup {BadSnapshot}

\* int(page_id) of a page id; it raises ValueError on text that is no number
IsInt(s) == \E n \in 1..3 : Str(n) = s

ToInt(s) == CHOOSE n \in 1..3 : Str(n) = s

RECURSIVE IntAll(_)
IntAll(keys) ==
    IF keys = {} THEN <<>>
    ELSE LET k == CHOOSE x \in keys : \A y \in keys : ToInt(x) <= ToInt(y)
         IN  <<ToInt(k)>> \o IntAll(keys \ {k})

UserChannel == [kind |-> "users", id |-> None]

PageChannels(page_ids) ==
    [i \in 1..Len(page_ids) |-> [kind |-> "pages", id |-> page_ids[i]]]

\* variant: the user channel is not joined
ChannelsPagesOnly(c) == PageChannels(clients[c].page_ids)

\* the channels connect() joins, in order
Channels(c) == <<UserChannel>> \o PageChannels(clients[c].page_ids)

\* PancakeWebSocketClient(...) and asyncio.create_task(client.connect()):
\* retried is history: the client has been through a reconnect delay
NewClient(page_ids) ==
    [page_ids |-> page_ids, should_reconnect |-> TRUE, websocket |-> "none",
     connected |-> FALSE, pc |-> "start", elapsed |-> 0, joined |-> <<>>,
     cancel_req |-> FALSE, retried |-> FALSE,
     event_handlers |-> Put(EmptyDict, UpdateConversation,
                            <<"handle_conversation_update">>)]

\* _send_message, lines 40-54: the client afterwards, the exception raised
\* ("" when none), the frame transmitted (<<>> when none) and the number of
\* refs taken from ref_counter by _get_next_ref (the counter only grows and
\* nothing else reads it, so the model keeps its increments, not its value);
\* delivers says whether websocket.send() gets the frame out
SendMessageRefFirst(cl, channel, event, delivers) ==
    IF cl.websocket = "none"
    THEN [client |-> cl, raised |-> "ConnectionError", frame |-> <<>>, refs |-> 1]
    ELSE IF cl.websocket = "open" /\ delivers
    THEN [client |-> cl, raised |-> "", frame |-> <<channel, event>>, refs |-> 1]
    ELSE [client |-> [cl EXCEPT !.connected = FALSE],
          raised |-> "SendError", frame |-> <<>>, refs |-> 1]
SendMessage(cl, channel, event, delivers) ==
    IF cl.websocket = "none"
    THEN [client |-> cl, raised |-> "ConnectionError", frame |-> <<>>, refs |-> 0]
    ELSE IF cl.websocket = "open" /\ delivers
    THEN [client |-> cl, raised |-> "", frame |-> <<channel, event>>, refs |-> 1]
    ELSE [client |-> [cl EXCEPT !.connected = FALSE],
          raised |-> "SendError", frame |-> <<>>, refs |-> 1]

ConnectDone(c) == clients[c].pc = "done"

\* line 101: while self._should_reconnect
LoopHead(cl) ==
    IF cl.should_reconnect THEN [cl EXCEPT !.pc = "handshake"]
    ELSE [cl EXCEPT !.pc = "done"]

\* the finally block, lines 152-154 (joined is the history of one session)
TearDown(cl) ==
    [cl EXCEPT !.websocket = "none", !.connected = FALSE, !.joined = <<>>,
               !.elapsed = 0]

\* variant: the loop ends with the session
SessionOverNoRetry(cl) == [TearDown(cl) EXCEPT !.pc = "done"]

\* lines 140-162: the except branches, the finally block and the choice
\* between the reconnect delay and the end of the loop
SessionOver(cl) ==
    IF cl.should_reconnect
    THEN [TearDown(cl) EXCEPT !.pc = "sleeping", !.retried = TRUE]
    ELSE [TearDown(cl) EXCEPT !.pc = "done"]

ConnUnchanged == UNCHANGED <<ws_client, recv_task, handler_task, reload_lock,
                             reloads, start_pc>>

\* the task runs for the first time; a task cancelled before that never runs
ConnectStart(c) ==
    /\ clients[c].pc = "start"
    /\ clients' = [clients EXCEPT ![c] =
          IF @.cancel_req THEN [@ EXCEPT !.pc = "done"] ELSE LoopHead(@)]
    /\ ConnUnchanged
    /\ UNCHANGED recvVars
    /\ UNCHANGED otherVars

\* variant: CancelledError is caught by "except Exception" (line 146)
CancelledCaught(cl) == SessionOver(cl)

\* CancelledError is no Exception: neither except branch (140-151) catches
\* it, the finally block (152-154) runs and the error leaves connect()
Cancelled(cl) == [TearDown(cl) EXCEPT !.pc = "done"]

\* the CancelledError of a requested cancellation is thrown into connect()
\* at its await; it passes through the finally block
ConnectCancelled(c) ==
    /\ clients[c].pc \in {"handshake", "joining", "reading", "sleeping"}
    /\ clients[c].cancel_req
    /\ clients' = [clients EXCEPT ![c] = Cancelled(@)]
    /\ ConnUnchanged
    /\ UNCHANGED recvVars
    /\ UNCHANGED otherVars

\* lines 104-115: websockets.connect succeeded
HandshakeOk(c) ==
    /\ clients[c].pc = "handshake"
    /\ ~clients[c].cancel_req
    /\ clients' = [clients EXCEPT ![c] =
          [@ EXCEPT !.websocket = "open", !.connected = TRUE, !.joined = <<>>,
                    !.pc = "joining"]]
    /\ ConnUnchanged
    /\ UNCHANGED recvVars
    /\ UNCHANGED otherVars

\* websockets.connect raised
HandshakeFailed(c) ==
    /\ clients[c].pc = "handshake"
    /\ ~clients[c].cancel_req
    /\ clients' = [clients EXCEPT ![c] = SessionOver(@)]
    /\ ConnUnchanged
    /\ UNCHANGED recvVars
    /\ UNCHANGED otherVars

\* lines 115-136: one phx_join frame was sent
JoinSent(c) ==
    /\ clients[c].pc = "joining"
    /\ ~clients[c].cancel_req
    /\ clients[c].websocket = "open"
    /\ LET channel == Channels(c)[Len(clients[c].joined) + 1]
           joined == Append(clients[c].joined, channel)
           sent == SendMessage(clients[c], channel, "phx_join", TRUE)
       IN  clients' = [clients EXCEPT ![c] =
              [sent.client EXCEPT !.joined = joined,
                        !.pc = IF Len(joined) = Len(Channels(c))
                               THEN "reading" ELSE "joining"]]
    /\ ConnUnchanged
    /\ UNCHANGED recvVars
    /\ UNCHANGED otherVars

\* lines 51-54: sending a phx_join frame raised
JoinFailed(c) ==
    /\ clients[c].pc = "joining"
    /\ ~clients[c].cancel_req
    /\ LET channel == Channels(c)[Len(clients[c].joined) + 1]
           sent == SendMessage(clients[c], channel, "phx_join", FALSE)
       IN  clients' = [clients EXCEPT ![c] = SessionOver(sent.client)]
    /\ ConnUnchanged
    /\ UNCHANGED recvVars
    /\ UNCHANGED otherVars

\* line 136: the read loop ends, with an error or because the session closed
SessionEnds(c) ==
    /\ clients[c].pc = "reading"
    /\ ~clients[c].cancel_req
    /\ clients' = [clients EXCEPT ![c] = SessionOver(@)]
    /\ ConnUnchanged
    /\ UNCHANGED recvVars
    /\ UNCHANGED otherVars

\* line 159: asyncio.sleep(5) is over
Wake(c) ==
    /\ c \in ClientIds
    /\ clients[c].pc = "sleeping"
    /\ ~clients[c].cancel_req
    /\ clients[c].elapsed >= ReconnectDelay
    /\ clients' = [clients EXCEPT ![c] = LoopHead([@ EXCEPT !.elapsed = 0])]
    /\ ConnUnchanged
    /\ UNCHANGED recvVars
    /\ UNCHANGED otherVars

(***************************************************************************)
(* ReceiverService.start() and _init_page_configs()                        *)
(***************************************************************************)
\* lines 95-100 of receiver_service.py raise for a page id that is no number
Constructs(snapshot) == \A k \in DOMAIN snapshot : IsInt(k)

\* ReceiverService.start() up to the await of the page service
StartBegin ==
    /\ start_pc = "idle"
    /\ start_pc' = "loading"
    /\ UNCHANGED <<clients, ws_client, recv_task, handler_task, reload_lock,
                   reloads>>
    /\ UNCHANGED recvVars
    /\ UNCHANGED otherVars

\* _init_page_configs assigns page_configs and ws_client, nothing else of
\* the receiver (variant: it also drops the work in flight, as cleanup does)
DropsInFlightWork ==
    /\ tasks' = CancelAll(tasks, TaskIds)
    /\ last_processed' = EmptyDict
    /\ UNCHANGED <<pending_tasks, burst, cleaned, handlers, finished, arrivals,
                   prev_arrival>>
KeepsInFlightWork ==
    UNCHANGED <<last_processed, pending_tasks, tasks, burst, cleaned,
                handlers, finished, arrivals, prev_arrival>>

\* the page service returned: the rest of _init_page_configs and of start()
StartAfterLoad(snapshot) ==
    /\ start_pc = "loading"
    /\ page_configs' = snapshot
    /\ IF Constructs(snapshot)
       THEN /\ clients' = Append(clients, NewClient(IntAll(DOMAIN snapshot)))
            /\ ws_client' = Len(clients) + 1
            /\ recv_task' = Len(clients) + 1
            /\ start_pc' = "done"
       ELSE /\ start_pc' = "failed"
            /\ UNCHANGED <<clients, ws_client, recv_task>>
    /\ UNCHANGED <<handler_task, reload_lock, reloads>>
    /\ KeepsInFlightWork
    /\ UNCHANGED otherVars

(***************************************************************************)
(* PageEventHandler._graceful_reload.  asyncio.Lock: acquire() returns at  *)
(* once if the lock is free and nobody waits for it, else the caller       *)
(* queues; release() wakes the first waiter, which takes the lock when it  *)
(* runs next.                                                              *)
(***************************************************************************)
ReloadIds == 1..Len(reloads)

\* recoveries counts the calls of _emergency_recovery; outcome tells how the
\* reload ended: "ok", "recovered", "logged" (the recovery raised and line 84
\* logged it) or "raised" (an exception left _graceful_reload)
\* pending is history: the delayed dispatches that had been scheduled and
\* were not over when the reload was triggered
NewReload(pc) ==
    [pc |-> pc, closing |-> None, recoveries |-> 0, outcome |-> "",
     pending |-> {t \in TaskIds : tasks[t].pc # "done"}]

\* variant: the lock never makes a caller wait
AcquireNowUnlocked == TRUE

\* line 47: async with self._reload_lock, for a caller that need not wait
AcquireNow == ~reload_lock.locked /\ reload_lock.waiters = <<>>

\* variant: the lock stays held when the reload ends
ReleaseForgotten(lock) == lock

\* the end of the async with block of line 47
Release(lock) ==
    [locked |-> FALSE, waiters |-> lock.waiters, woken |-> lock.waiters # <<>>]

\* lines 61-68 and 92-97: close the current client if there is one, then
\* call _init_page_configs, from clients cl; rs is the record of reload r
CloseAndLoad(rs, r, cl, closing_pc, loading_pc) ==
    IF ws_client # None
    THEN LET stopped == [cl EXCEPT ![ws_client].should_reconnect = FALSE]
         IN  IF cl[ws_client].websocket = "open"
             THEN /\ clients' = [stopped EXCEPT ![ws_client].websocket = "closed"]
                  /\ reloads' = [rs EXCEPT ![r].pc = closing_pc,
                                           ![r].closing = ws_client]
                  /\ UNCHANGED ws_client
             ELSE /\ clients' = [stopped EXCEPT ![ws_client].connected = FALSE]
                  /\ reloads' = [rs EXCEPT ![r].pc = loading_pc]
                  /\ ws_client' = None
    ELSE /\ clients' = cl
         /\ reloads' = [rs EXCEPT ![r].pc = loading_pc]
         /\ UNCHANGED ws_client

\* lines 51-68: steps 1 and 2 up to their first await
Step1(rs, r) ==
    IF handler_task # None /\ ~ConnectDone(handler_task)
    THEN /\ clients' = [clients EXCEPT ![handler_task].cancel_req = TRUE]
         /\ reloads' = [rs EXCEPT ![r].pc = "await_task"]
         /\ UNCHANGED ws_client
    ELSE CloseAndLoad(rs, r, clients, "closing", "loading")

\* a call of _graceful_reload, up to its first await
Trigger ==
    /\ start_pc # "idle"
    /\ Len(reloads) < MaxReloads
    /\ IF AcquireNow
       THEN /\ reload_lock' = [reload_lock EXCEPT !.locked = TRUE]
            /\ Step1(Append(reloads, NewReload("step1")), Len(reloads) + 1)
       ELSE /\ reload_lock' = [reload_lock EXCEPT
                                  !.waiters = Append(@, Len(reloads) + 1)]
            /\ reloads' = Append(reloads, NewReload("waiting"))
            /\ UNCHANGED <<clients, ws_client>>
    /\ UNCHANGED <<recv_task, handler_task, start_pc>>
    /\ UNCHANGED recvVars

\* PageEventType, page_events.py lines 10-17
PageEventTypes ==
    {"page_created", "page_updated", "page_deleted", "page_activated",
     "page_deactivated", "pages_reloaded"}

\* lines 27-33
ReloadEvents == PageEventTypes \ {"page_updated"}

\* variant: an update of a page's details does not reload
NeedsReloadUnlessUpdated(kind) == kind \in ReloadEvents

\* lines 35-40: the branch for PAGE_UPDATED reloads as well
NeedsReload(kind) == kind \in ReloadEvents \/ kind = "page_updated"

\* handle_page_event, lines 21-43, called by the bus with an event of the
\* given kind (start() has subscribed it, line 290 of receiver_service.py)
HandlePageEvent(kind) ==
    /\ start_pc # "idle"
    /\ notified < MaxReloads
    /\ notified' = notified + 1
    /\ IF NeedsReload(kind)
       THEN Trigger
       ELSE UNCHANGED <<recvVars, connVars>>
    /\ UNCHANGED <<busVars, wireVars, sendVars, tokenVars, shutdownVars>>

\* a woken waiter takes the lock and starts step 1
LockResume(r) ==
    /\ reloads[r].pc = "waiting"
    /\ reload_lock.woken
    /\ Head(reload_lock.waiters) = r
    /\ reload_lock' = [locked |-> TRUE, waiters |-> Tail(reload_lock.waiters),
                       woken |-> FALSE]
    /\ Step1(reloads, r)
    /\ UNCHANGED <<recv_task, handler_task, start_pc>>
    /\ UNCHANGED recvVars
    /\ UNCHANGED otherVars

\* line 56: the cancelled connect task is done
AfterAwaitTask(r) ==
    /\ reloads[r].pc = "await_task"
    /\ ConnectDone(handler_task)
    /\ CloseAndLoad(reloads, r, clients, "closing", "loading")
    /\ UNCHANGED <<recv_task, handler_task, reload_lock, start_pc>>
    /\ UNCHANGED recvVars
    /\ UNCHANGED otherVars

\* lines 178-180 of close() and line 64, then step 3 up to its await
AfterClose(r) ==
    /\ reloads[r].pc = "closing"
    /\ clients' = [clients EXCEPT ![reloads[r].closing].connected = FALSE]
    /\ ws_client' = None
    /\ reloads' = [reloads EXCEPT ![r].pc = "loading", ![r].closing = None]
    /\ UNCHANGED <<recv_task, handler_task, reload_lock, start_pc>>
    /\ UNCHANGED recvVars
    /\ UNCHANGED otherVars

\* lines 95-100 and 71-76 or 99-102: the snapshot is stored, the client
\* constructed and its connect task created; the reload is over
Reconnect(r, snapshot) ==
    /\ clients' = Append(clients, NewClient(IntAll(DOMAIN snapshot)))
    /\ ws_client' = Len(clients) + 1
    /\ handler_task' = Len(clients) + 1
    /\ reloads' = [reloads EXCEPT ![r].pc = "done",
                                  ![r].outcome = IF reloads[r].recoveries = 0
                                                 THEN "ok" ELSE "recovered"]
    /\ reload_lock' = Release(reload_lock)

\* variant: the failure of the recovery leaves _graceful_reload
RecoveryFailedRaises(r) ==
    [reloads EXCEPT ![r].pc = "done", ![r].outcome = "raised"]

\* lines 104-106 and 83-84: the recovery raised; the error is logged twice
\* and the reload ends
RecoveryFailed(r) ==
    [reloads EXCEPT ![r].pc = "done", ![r].outcome = "logged"]

\* the page service returned to step 3
AfterLoad(r, snapshot) ==
    /\ reloads[r].pc = "loading"
    /\ page_configs' = snapshot
    /\ IF Constructs(snapshot)
       THEN Reconnect(r, snapshot)
       ELSE /\ CloseAndLoad([reloads EXCEPT ![r].recoveries = @ + 1], r,
                            clients, "recovery_closing", "recovery_loading")
            /\ UNCHANGED <<handler_task, reload_lock>>
    /\ UNCHANGED <<recv_task, start_pc>>
    /\ KeepsInFlightWork
    /\ UNCHANGED otherVars

\* lines 93-97 of _emergency_recovery
AfterRecoveryClose(r) ==
    /\ reloads[r].pc = "recovery_closing"
    /\ clients' = [clients EXCEPT ![reloads[r].closing].connected = FALSE]
    /\ ws_client' = None
    /\ reloads' = [reloads EXCEPT ![r].pc = "recovery_loading",
                                  ![r].closing = None]
    /\ UNCHANGED <<recv_task, handler_task, reload_lock, start_pc>>
    /\ UNCHANGED recvVars
    /\ UNCHANGED otherVars

\* the page service returned to _emergency_recovery; its failure is logged
AfterRecoveryLoad(r, snapshot) ==
    /\ reloads[r].pc = "recovery_loading"
    /\ page_configs' = snapshot
    /\ IF Constructs(snapshot)
       THEN Reconnect(r, snapshot)
       ELSE /\ reloads' = RecoveryFailed(r)
            /\ reload_lock' = Release(reload_lock)
            /\ UNCHANGED <<clients, ws_client, handler_task>>
    /\ UNCHANGED <<recv_task, start_pc>>
    /\ KeepsInFlightWork
    /\ UNCHANGED otherVars

AgeClients ==
    [c \in ClientIds |->
        IF clients[c].pc = "sleeping"
        THEN [clients[c] EXCEPT !.elapsed = Min(@ + 1, ReconnectDelay)]
        ELSE clients[c]]

(***************************************************************************)
(* PageEventBus (src/events/page_events.py)                                *)
(***************************************************************************)
MaxSubs == 2
MaxEmits == 1

EventKinds == {"page_created", "page_updated"}

\* the callables handed to subscribe / subscribe_all: a coroutine function
\* (such as PageEventHandler.handle_page_event) and a plain function
Listeners == {"handle_page_event", "sync_listener"}

IsCoroutineFunction(l) == l = "handle_page_event"

EmitIds == 1..Len(emits)

\* dict.get(event_type, [])
Specific(kind) == IF kind \in DOMAIN subscribers THEN subscribers[kind] ELSE <<>>

Registrations ==
    LET RECURSIVE Total(_)
        Total(ks) == IF ks = {} THEN 0
                     ELSE LET k == CHOOSE x \in ks : TRUE
                          IN  Len(subscribers[k]) + Total(ks \ {k})
    IN  Total(DOMAIN subscribers) + Len(global_subscribers)

\* list.remove(callback): the first occurrence goes, ValueError when absent
RemoveFirst(list, l) ==
    IF \E i \in 1..Len(list) : list[i] = l
    THEN LET i == CHOOSE j \in 1..Len(list) :
                      list[j] = l /\ \A m \in 1..(j - 1) : list[m] # l
         IN  [m \in 1..(Len(list) - 1) |-> IF m < i THEN list[m] ELSE list[m + 1]]
    ELSE list

BusUnchanged == /\ UNCHANGED recvVars
                /\ UNCHANGED connVars
                /\ UNCHANGED wireVars
                /\ UNCHANGED sendVars
                /\ UNCHANGED eventVars
                /\ UNCHANGED tokenVars
                /\ UNCHANGED shutdownVars

\* subscribe(event_type, callback)
Subscribe(kind, l) ==
    /\ Registrations < MaxSubs
    /\ subscribers' = Put(subscribers, kind, Append(Specific(kind), l))
    /\ UNCHANGED <<global_subscribers, emits>>
    /\ BusUnchanged

\* subscribe_all(callback)
SubscribeAll(l) ==
    /\ Registrations < MaxSubs
    /\ global_subscribers' = Append(global_subscribers, l)
    /\ UNCHANGED <<subscribers, emits>>
    /\ BusUnchanged

\* unsubscribe(event_type, callback)
Unsubscribe(kind, l) ==
    /\ kind \in DOMAIN subscribers
    /\ \E i \in 1..Len(subscribers[kind]) : subscribers[kind][i] = l
    /\ subscribers' = [subscribers EXCEPT ![kind] = RemoveFirst(@, l)]
    /\ UNCHANGED <<global_subscribers, emits>>
    /\ BusUnchanged

\* one entry of the list handed to gather(): the coroutine of a coroutine
\* function, or the task that runs a plain function in a thread
Call(l) == [listener |-> l, state |-> "pending", thread |-> ~IsCoroutineFunction(l)]

Completed(call) == call.state \in {"ok", "failed"}

\* gather(*tasks, return_exceptions=True) is over when every entry is
GatherFirstCompleted(calls) == \E i \in 1..Len(calls) : Completed(calls[i])
Gather(calls) == \A i \in 1..Len(calls) : Completed(calls[i])

\* emit(event) up to the await of gather(); with no listener it returns
Emit(kind) ==
    /\ Len(emits) < MaxEmits
    /\ LET all_subscribers == Specific(kind) \o global_subscribers
           calls == [i \in 1..Len(all_subscribers) |-> Call(all_subscribers[i])]
       IN  emits' = Append(emits,
               [kind |-> kind, calls |-> calls,
                pc |-> IF calls = <<>> THEN "returned" ELSE "gathering",
                result |-> IF calls = <<>> THEN "normal" ELSE ""])
    /\ UNCHANGED <<subscribers, global_subscribers>>
    /\ BusUnchanged

\* the event loop starts one of the gathered listeners
ListenerStart(e, i) ==
    /\ emits[e].pc = "gathering"
    /\ i \in 1..Len(emits[e].calls)
    /\ emits[e].calls[i].state = "pending"
    /\ emits' = [emits EXCEPT ![e].calls[i].state = "running"]
    /\ UNCHANGED <<subscribers, global_subscribers>>
    /\ BusUnchanged

\* what the exception of listener i does to the gathered listeners
AfterFailureAbort(calls, i) ==
    [j \in 1..Len(calls) |->
        IF j = i THEN [calls[j] EXCEPT !.state = "failed"]
        ELSE IF Completed(calls[j]) THEN calls[j]
        ELSE [calls[j] EXCEPT !.state = "cancelled"]]
AfterFailure(calls, i) == [calls EXCEPT ![i].state = "failed"]

\* a listener returns (ok) or raises
ListenerEnd(e, i, ok) ==
    /\ i \in 1..Len(emits[e].calls)
    /\ emits[e].calls[i].state = "running"
    /\ emits' = [emits EXCEPT ![e].calls =
                    IF ok THEN [@ EXCEPT ![i].state = "ok"]
                    ELSE AfterFailure(@, i)]
    /\ UNCHANGED <<subscribers, global_subscribers>>
    /\ BusUnchanged

\* gather() hands the results and the exceptions back; emit returns
EmitReturn(e) ==
    /\ emits[e].pc = "gathering"
    /\ Gather(emits[e].calls)
    /\ emits' = [emits EXCEPT ![e].pc = "returned", ![e].result = "normal"]
    /\ UNCHANGED <<subscribers, global_subscribers>>
    /\ BusUnchanged

(***************************************************************************)
(* Inbound frames and _send_message (src/websocket/pancake_websocket.py)   *)
(***************************************************************************)
MaxFrames == 2
MaxHandlers == 2
MaxSends == 1

\* an inbound frame: whether json.loads accepts the text, whether the value
\* is a list, and the items of the list ("" stands for null)
Frame(valid_json, is_list, items) ==
    [valid_json |-> valid_json, is_list |-> is_list, items |-> items]

Frames ==
    { Frame(FALSE, FALSE, <<>>),
      Frame(TRUE, FALSE, <<>>),
      Frame(TRUE, TRUE, <<"1", "1", "pages:1">>),
      Frame(TRUE, TRUE, <<"1", "1", "pages:1", UpdateConversation>>),
      Frame(TRUE, TRUE, <<"1", "1", "pages:1", UpdateConversation, "payload">>),
      Frame(TRUE, TRUE, <<"1", "1", "pages:1", UpdateConversation, "payload", "more">>),
      Frame(TRUE, TRUE, <<"1", "1", "pages:1", "phx_reply", "payload">>),
      Frame(TRUE, TRUE, <<"1", "1", "pages:1", "", "payload">>) }

\* the handlers on_event can be given: coroutine functions and a plain one
Handlers == {"handle_conversation_update", "async_handler", "sync_handler"}

IsCoroutineHandler(h) == h # "sync_handler"

DispatchIds == 1..Len(dispatches)

\* lines 59-70 of _handle_message: what the frame is taken for
Parse(frame) ==
    IF ~frame.valid_json
    THEN [log |-> "JSONDecodeError", event |-> "", payload |-> ""]
    ELSE IF ~frame.is_list \/ Len(frame.items) < 4
    THEN [log |-> "invalid format", event |-> "", payload |-> ""]
    ELSE [log |-> "event", event |-> frame.items[4],
          payload |-> IF Len(frame.items) > 4 THEN frame.items[5] ELSE "{}"]

\* line 77: self.event_handlers.get(event, [])
HandlersFor(cl, event) ==
    IF event \in DOMAIN cl.event_handlers THEN cl.event_handlers[event] ELSE <<>>

HandlersOf(d) == HandlersFor(clients[d.client], Parse(d.frame).event)

\* asyncio.create_task(self._safe_handle_message(message)), line 138
NewDispatch(c, frame) ==
    [client |-> c, frame |-> frame, pc |-> "created", idx |-> 0,
     invoked |-> <<>>, caught |-> <<>>,
     overtook |-> \E k \in DispatchIds : dispatches[k].pc = "in_handler"]

\* lines 81-88: the for loop from handler i on, up to the next await or to
\* its end; raises[j] tells whether the plain function at j raises
RECURSIVE Advance(_, _, _)
Advance(d, i, raises) ==
    IF i > Len(HandlersOf(d)) THEN [d EXCEPT !.pc = "done", !.idx = 0]
    ELSE LET h == HandlersOf(d)[i]
             called == [d EXCEPT !.invoked = Append(@, [handler |-> h,
                                       payload |-> Parse(d.frame).payload])]
         IN  IF IsCoroutineHandler(h)
             THEN [called EXCEPT !.pc = "in_handler", !.idx = i]
             ELSE Advance([called EXCEPT !.caught = IF raises[i] THEN Append(@, i) ELSE @],
                          i + 1, raises)

\* what the read loop waits for before it takes the next frame
ReadAfterHandlers(c) ==
    \A k \in DispatchIds : dispatches[k].client = c => dispatches[k].pc = "done"
ReadNext(c) == TRUE

WireUnchanged == /\ UNCHANGED recvVars
                 /\ UNCHANGED busVars
                 /\ UNCHANGED sendVars
                 /\ UNCHANGED eventVars
                 /\ UNCHANGED tokenVars
                 /\ UNCHANGED shutdownVars
                 /\ UNCHANGED <<ws_client, recv_task, handler_task,
                                reload_lock, reloads, start_pc>>

\* on_event(event_name, callback)
OnEvent(c, h) ==
    /\ Len(HandlersFor(clients[c], UpdateConversation)) < MaxHandlers
    /\ clients' = [clients EXCEPT ![c].event_handlers =
                      Put(@, UpdateConversation,
                          Append(HandlersFor(clients[c], UpdateConversation), h))]
    /\ UNCHANGED wireVars
    /\ WireUnchanged

\* lines 136-138: the read loop takes a frame and makes a task for it
ReadFrame(c, frame) ==
    /\ clients[c].pc = "reading"
    /\ clients[c].websocket = "open"
    /\ ~clients[c].cancel_req
    /\ ReadNext(c)
    /\ Len(dispatches) < MaxFrames
    /\ dispatches' = Append(dispatches, NewDispatch(c, frame))
    /\ UNCHANGED <<clients, sends>>
    /\ WireUnchanged

\* _safe_handle_message and _handle_message up to the first await
DispatchStart(d, raises) ==
    /\ dispatches[d].pc = "created"
    /\ LET parsed == Parse(dispatches[d].frame)
       IN  dispatches' = [dispatches EXCEPT ![d] =
              IF parsed.log = "event" /\ parsed.event # ""
              THEN Advance(@, 1, raises)
              ELSE [@ EXCEPT !.pc = "done"]]
    /\ UNCHANGED <<clients, sends>>
    /\ WireUnchanged

\* lines 81-88: where the for loop goes on after the awaited handler ended
NextHandlerUnlessRaised(d, raised) ==
    IF raised THEN Len(HandlersOf(d)) + 1 ELSE d.idx + 1
NextHandler(d, raised) == d.idx + 1

\* the awaited handler returns or raises (lines 84, 87-88)
HandlerEnd(d, raised, raises) ==
    /\ dispatches[d].pc = "in_handler"
    /\ LET task == dispatches[d]
           after == [task EXCEPT !.caught =
                        IF raised THEN Append(@, task.idx) ELSE @]
       IN  dispatches' = [dispatches EXCEPT ![d] =
              Advance(after, NextHandler(task, raised), raises)]
    /\ UNCHANGED <<clients, sends>>
    /\ WireUnchanged

\* _send_message called by a caller other than connect()
Send(c, delivers) ==
    /\ Len(sends) < MaxSends
    /\ LET sent == SendMessage(clients[c], UserChannel, "phx_join", delivers)
       IN  /\ clients' = [clients EXCEPT ![c] = sent.client]
           /\ sends' = Append(sends,
                  [client |-> c, websocket |-> clients[c].websocket,
                   raised |-> sent.raised, frame |-> sent.frame,
                   refs |-> sent.refs])
    /\ UNCHANGED dispatches
    /\ WireUnchanged

(***************************************************************************)
(* One second passes.                                                      *)
(***************************************************************************)
AgeTasks ==
    [t \in TaskIds |->
        IF tasks[t].pc = "sleeping"
        THEN [tasks[t] EXCEPT !.elapsed = Min(@ + 1, DebounceDelay)]
        ELSE tasks[t]]

AgeEntries ==
    [k \in DOMAIN last_processed |->
        [last_processed[k] EXCEPT !.age = Min(@ + 1, DedupWindow)]]

AgeArrivals ==
    [k \in DOMAIN prev_arrival |->
        [prev_arrival[k] EXCEPT !.age = Min(@ + 1, DedupWindow)]]

Tick ==
    /\ tasks' = AgeTasks
    /\ last_processed' = AgeEntries
    /\ prev_arrival' = AgeArrivals
    /\ clients' = AgeClients
    /\ UNCHANGED <<page_configs, pending_tasks, burst, cleaned, handlers,
                   finished, arrivals>>
    /\ UNCHANGED <<ws_client, recv_task, handler_task, reload_lock, reloads,
                   start_pc>>
    /\ UNCHANGED otherVars

(***************************************************************************)
(* PancakeService._get_page_token, pancake_api.py lines 64-72.  The        *)
(* service keeps page configs of its own: they are loaded from the page    *)
(* service when they are empty (line 67) and are never assigned anywhere   *)
(* else.  The pages the page service holds at the time of the call are     *)
(* those of the snapshot the receiver loaded last.                         *)
(***************************************************************************)
PageIds == {"1", "2"}

\* _load_page_configs_from_db of PancakeService, lines 25-42: the token of a
\* page is named after the page
TokenConfigs(snapshot) ==
    [k \in DOMAIN snapshot |-> [page_access_token |-> k,
                                page_name |-> snapshot[k].page_name]]

\* lines 67-68
LoadIfEmpty(configs, snapshot) ==
    IF configs = EmptyDict THEN TokenConfigs(snapshot) ELSE configs

\* line 72; "" stands for the None of a missing token
Token(configs, page_id) ==
    IF page_id \in DOMAIN configs THEN configs[page_id].page_access_token ELSE ""

GetPageToken(page_id) ==
    /\ token_configs' = LoadIfEmpty(token_configs, page_configs)
    /\ page_token' = [page_id |-> page_id,
                      token |-> Token(LoadIfEmpty(token_configs, page_configs), page_id)]
    /\ page_token' # page_token \/ token_configs' # token_configs
    /\ UNCHANGED recvVars
    /\ UNCHANGED connVars
    /\ UNCHANGED <<busVars, wireVars, sendVars, eventVars, shutdownVars>>

(***************************************************************************)
(* Specifications                                                          *)
(***************************************************************************)
InitRecv ==
    /\ page_configs = EmptyDict
    /\ last_processed = EmptyDict
    /\ pending_tasks = [k \in ConvIds |-> None]
    /\ tasks = <<>>
    /\ burst = [k \in ConvIds |-> 0]
    /\ cleaned = FALSE
    /\ handlers = <<>>
    /\ finished = NoHandler
    /\ arrivals = 0
    /\ prev_arrival = EmptyDict

InitConn ==
    /\ clients = <<>>
    /\ ws_client = None
    /\ recv_task = None
    /\ handler_task = None
    /\ reload_lock = [locked |-> FALSE, waiters |-> <<>>, woken |-> FALSE]
    /\ reloads = <<>>
    /\ start_pc = "idle"

InitBus ==
    /\ subscribers = EmptyDict
    /\ global_subscribers = <<>>
    /\ emits = <<>>

InitWire ==
    /\ dispatches = <<>>
    /\ sends = <<>>

InitSend == send_results = [t \in 1..MaxSched |-> NoResult]

InitEvents == notified = 0

InitTokens ==
    /\ token_configs = EmptyDict
    /\ page_token = [page_id |-> "", token |-> ""]

InitShutdown == cleanup_call = [pc |-> "idle", closing |-> None, pending |-> {}]

Init ==
    /\ InitRecv /\ InitConn /\ InitBus /\ InitWire /\ InitSend /\ InitEvents
    /\ InitTokens /\ InitShutdown

NextDebounce ==
    \/ \E k \in ConvIds : Schedule(k)
    \/ \E t \in TaskIds : TaskStart(t)
    \/ \E t \in TaskIds : TaskCancelledInSleep(t)
    \/ \E t \in TaskIds : TaskFire(t)
    \/ \E t \in TaskIds : TaskFinish(t)
    \/ Cleanup
    \/ Tick

SpecDebounce == Init /\ [][NextDebounce]_vars

\* the debouncer with the outcome of each dispatch
NextDispatch ==
    \/ \E k \in ConvIds : Schedule(k)
    \/ \E t \in TaskIds : TaskStart(t)
    \/ \E t \in TaskIds : TaskCancelledInSleep(t)
    \/ \E t \in TaskIds : TaskFire(t)
    \/ \E t \in TaskIds, r \in SendResults : ProcessSingleMessage(t, r)
    \/ Cleanup
    \/ Tick

SpecDispatch == Init /\ [][NextDispatch]_vars

NextRouter ==
    \/ \E ev \in Events : HandleConversationUpdate(ev)
    \/ \E h \in HandlerIds, ok \in BOOLEAN : AfterAddAiTag(h, ok)
    \/ \E h \in HandlerIds : AfterAddSupportTag(h)
    \/ \E h \in HandlerIds : AfterNotify(h)
    \/ \E h \in HandlerIds, conversation \in BOOLEAN : AfterCreateOrGet(h, conversation)
    \/ \E snapshot \in Snapshots : InitPageConfigs(snapshot)
    \/ \E t \in TaskIds : TaskStart(t)
    \/ \E t \in TaskIds : TaskCancelledInSleep(t)
    \/ \E t \in TaskIds : TaskFire(t)
    \/ \E t \in TaskIds : TaskFinish(t)
    \/ Tick

SpecRouter == Init /\ [][NextRouter]_vars

NextConn ==
    \/ StartBegin
    \/ \E snapshot \in Loadable : StartAfterLoad(snapshot)
    \/ \E kind \in PageEventTypes : HandlePageEvent(kind)
    \/ \E r \in ReloadIds : LockResume(r)
    \/ \E r \in ReloadIds : AfterAwaitTask(r)
    \/ \E r \in ReloadIds : AfterClose(r)
    \/ \E r \in ReloadIds, snapshot \in Loadable : AfterLoad(r, snapshot)
    \/ \E r \in ReloadIds : AfterRecoveryClose(r)
    \/ \E r \in ReloadIds, snapshot \in Loadable : AfterRecoveryLoad(r, snapshot)
    \/ \E c \in ClientIds : ConnectStart(c)
    \/ \E c \in ClientIds : ConnectCancelled(c)
    \/ \E c \in ClientIds : HandshakeOk(c)
    \/ \E c \in ClientIds : HandshakeFailed(c)
    \/ \E c \in ClientIds : JoinSent(c)
    \/ \E c \in ClientIds : JoinFailed(c)
    \/ \E c \in ClientIds : SessionEnds(c)
    \/ \E c \in ClientIds : Wake(c)
    \/ Tick

SpecConn == Init /\ [][NextConn]_vars

\* the clock advances, and a task whose sleep is over is run
SpecConnFair ==
    /\ SpecConn
    /\ WF_vars(Tick)
    /\ \A c \in 1..(MaxReloads + 1) : WF_vars(Wake(c))

\* besides, the event loop runs every task that is ready: a cancelled connect
\* task ends, and the awaits of a reload (the cancelled task, close(), the
\* page service, the lock) return
SpecReloadFair ==
    /\ SpecConnFair
    /\ \A c \in 1..(MaxReloads + 1) :
          /\ WF_vars(c \in ClientIds /\ ConnectStart(c))
          /\ WF_vars(c \in ClientIds /\ ConnectCancelled(c))
    /\ \A r \in 1..MaxReloads :
          /\ WF_vars(r \in ReloadIds /\ LockResume(r))
          /\ WF_vars(r \in ReloadIds /\ AfterAwaitTask(r))
          /\ WF_vars(r \in ReloadIds /\ AfterClose(r))
          /\ WF_vars(r \in ReloadIds /\ \E snapshot \in Loadable : AfterLoad(r, snapshot))
          /\ WF_vars(r \in ReloadIds /\ AfterRecoveryClose(r))
          /\ WF_vars(r \in ReloadIds /\
                     \E snapshot \in Loadable : AfterRecoveryLoad(r, snapshot))

\* ReceiverService._load_page_configs_from_db, lines 78-92, over
\* PageService.get_all_active_pages, page_service.py lines 89-106: both catch
\* every Exception, the one returns [] for it and the other {}; pages is
\* what the page service holds, raised whether its query raised
LoadPageConfigsFromDb(pages, raised) == IF raised THEN EmptyDict ELSE pages

\* reloads that load well-formed snapshots, and token lookups
NextTokens ==
    \/ StartBegin
    \/ \E snapshot \in Snapshots : StartAfterLoad(snapshot)
    \/ \E kind \in PageEventTypes : HandlePageEvent(kind)
    \/ \E r \in ReloadIds : LockResume(r)
    \/ \E r \in ReloadIds : AfterAwaitTask(r)
    \/ \E r \in ReloadIds : AfterClose(r)
    \/ \E r \in ReloadIds, pages \in Snapshots, raised \in BOOLEAN :
          AfterLoad(r, LoadPageConfigsFromDb(pages, raised))
    \/ \E c \in ClientIds : ConnectStart(c)
    \/ \E c \in ClientIds : ConnectCancelled(c)
    \/ \E c \in ClientIds : HandshakeOk(c)
    \/ \E page_id \in PageIds : GetPageToken(page_id)

SpecTokens == Init /\ [][NextTokens]_vars

NextBus ==
    \/ \E kind \in EventKinds, l \in Listeners : Subscribe(kind, l)
    \/ \E l \in Listeners : SubscribeAll(l)
    \/ \E kind \in EventKinds, l \in Listeners : Unsubscribe(kind, l)
    \/ \E kind \in EventKinds : Emit(kind)
    \/ \E e \in EmitIds, i \in 1..MaxSubs : ListenerStart(e, i)
    \/ \E e \in EmitIds, i \in 1..MaxSubs, ok \in BOOLEAN : ListenerEnd(e, i, ok)
    \/ \E e \in EmitIds : EmitReturn(e)

SpecBus == Init /\ [][NextBus]_vars

Raising == [1..MaxHandlers -> BOOLEAN]

NextWire ==
    \/ StartBegin
    \/ \E snapshot \in Loadable : StartAfterLoad(snapshot)
    \/ \E c \in ClientIds : ConnectStart(c)
    \/ \E c \in ClientIds : HandshakeOk(c)
    \/ \E c \in ClientIds : HandshakeFailed(c)
    \/ \E c \in ClientIds : JoinSent(c)
    \/ \E c \in ClientIds : JoinFailed(c)
    \/ \E c \in ClientIds : SessionEnds(c)
    \/ \E c \in ClientIds : Wake(c)
    \/ \E c \in ClientIds, h \in Handlers : OnEvent(c, h)
    \/ \E c \in ClientIds, frame \in Frames : ReadFrame(c, frame)
    \/ \E d \in DispatchIds, raises \in Raising : DispatchStart(d, raises)
    \/ \E d \in DispatchIds, raised \in BOOLEAN, raises \in Raising :
          HandlerEnd(d, raised, raises)
    \/ Tick

SpecWire == Init /\ [][NextWire]_vars

NextSend ==
    \/ NextConn
    \/ \E c \in ClientIds, delivers \in BOOLEAN : Send(c, delivers)

SpecSend == Init /\ [][NextSend]_vars

\* updates of a customer on conversation c1 of page 1
HotEvents ==
    {ev \in Events : /\ ev.conv = "c1" /\ ev.page_id = 1 /\ ev.type = "INBOX"
                     /\ ev.sender_name = <<"A", "n">> /\ ev.tags = <<>>
                     /\ ev.snippet = <<"hi">>}

\* start(), the reloads, the connect tasks up to the read loop, and one
\* frame read from an open session with the work it starts
NextHotSwap ==
    \/ StartBegin
    \/ \E snapshot \in Loadable : StartAfterLoad(snapshot)
    \/ \E kind \in PageEventTypes : HandlePageEvent(kind)
    \/ \E r \in ReloadIds : LockResume(r)
    \/ \E r \in ReloadIds : AfterAwaitTask(r)
    \/ \E r \in ReloadIds : AfterClose(r)
    \/ \E r \in ReloadIds, snapshot \in Loadable : AfterLoad(r, snapshot)
    \/ \E r \in ReloadIds : AfterRecoveryClose(r)
    \/ \E r \in ReloadIds, snapshot \in Loadable : AfterRecoveryLoad(r, snapshot)
    \/ \E c \in ClientIds : ConnectStart(c)
    \/ \E c \in ClientIds : ConnectCancelled(c)
    \/ \E c \in ClientIds : HandshakeOk(c)
    \/ \E c \in ClientIds : JoinSent(c)
    \/ \E c \in ClientIds, ev \in HotEvents :
          /\ clients[c].pc = "reading"
          /\ clients[c].websocket = "open"
          /\ ~clients[c].cancel_req
          /\ arrivals = 0
          /\ HandleConversationUpdate(ev)
    \/ \E h \in HandlerIds, conversation \in BOOLEAN : AfterCreateOrGet(h, conversation)
    \/ \E t \in TaskIds : TaskStart(t)
    \/ \E t \in TaskIds : TaskFire(t)
    \/ \E t \in TaskIds : TaskFinish(t)
    \/ Tick

SpecHotSwap == Init /\ [][NextHotSwap]_vars

(***************************************************************************)
(* ReceiverService.cleanup(), lines 47-76, awaited by lifespan at shutdown *)
(* (main.py lines 48-55), with a connection: start() has been called.      *)
(* Cleanup above is the same call before any connection exists, where it   *)
(* has nothing to wait for.                                                *)
(***************************************************************************)
\* lines 58-71: the tasks in pending_tasks are cancelled, the table is
\* cleared and close_session() is awaited
CancelPending ==
    /\ tasks' = CancelAll(tasks, {pending_tasks[k] : k \in ConvIds} \ {None})
    /\ pending_tasks' = [k \in ConvIds |-> None]
    /\ cleaned' = TRUE
    /\ UNCHANGED <<page_configs, last_processed, burst, handlers, finished,
                   arrivals, prev_arrival>>

\* lines 50-56: self._connect_task, the task made by start(), is cancelled
\* and awaited if it is not done; shutdown comes when start() is over
CleanupBegin ==
    /\ cleanup_call.pc = "idle"
    /\ start_pc \in {"done", "failed"}
    /\ LET held == {pending_tasks[k] : k \in ConvIds} \ {None}
           call == [cleanup_call EXCEPT
                      !.pending = {t \in held : ~tasks[t].invoked /\ ~TaskDone(t)}]
       IN  IF recv_task # None /\ ~ConnectDone(recv_task)
           THEN /\ clients' = [clients EXCEPT ![recv_task].cancel_req = TRUE]
                /\ cleanup_call' = [call EXCEPT !.pc = "await_task"]
                /\ UNCHANGED recvVars
           ELSE /\ CancelPending
                /\ cleanup_call' = [call EXCEPT !.pc = "close_session"]
                /\ UNCHANGED clients
    /\ UNCHANGED <<ws_client, recv_task, handler_task, reload_lock, reloads, start_pc>>
    /\ UNCHANGED <<busVars, wireVars, sendVars, eventVars, tokenVars>>

\* line 54: the cancelled task is done
CleanupAfterAwait ==
    /\ cleanup_call.pc = "await_task"
    /\ ConnectDone(recv_task)
    /\ CancelPending
    /\ cleanup_call' = [cleanup_call EXCEPT !.pc = "close_session"]
    /\ UNCHANGED connVars
    /\ UNCHANGED <<busVars, wireVars, sendVars, eventVars, tokenVars>>

\* lines 72-74: close_session() returned; close() of the current client,
\* lines 171-182 of pancake_websocket.py, up to its await
CleanupAfterCloseSession ==
    /\ cleanup_call.pc = "close_session"
    /\ IF ws_client # None
       THEN LET stopped == [clients EXCEPT ![ws_client].should_reconnect = FALSE]
            IN  IF clients[ws_client].websocket = "open"
                THEN /\ clients' = [stopped EXCEPT ![ws_client].websocket = "closed"]
                     /\ cleanup_call' = [cleanup_call EXCEPT !.pc = "closing",
                                                            !.closing = ws_client]
                ELSE /\ clients' = [stopped EXCEPT ![ws_client].connected = FALSE]
                     /\ cleanup_call' = [cleanup_call EXCEPT !.pc = "done"]
       ELSE /\ cleanup_call' = [cleanup_call EXCEPT !.pc = "done"]
            /\ UNCHANGED clients
    /\ UNCHANGED <<ws_client, recv_task, handler_task, reload_lock, reloads, start_pc>>
    /\ UNCHANGED recvVars
    /\ UNCHANGED <<busVars, wireVars, sendVars, eventVars, tokenVars>>

\* lines 178-180 of close(): websocket.close() returned
CleanupAfterClose ==
    /\ cleanup_call.pc = "closing"
    /\ clients' = [clients EXCEPT ![cleanup_call.closing].connected = FALSE]
    /\ cleanup_call' = [cleanup_call EXCEPT !.pc = "done", !.closing = None]
    /\ UNCHANGED <<ws_client, recv_task, handler_task, reload_lock, reloads, start_pc>>
    /\ UNCHANGED recvVars
    /\ UNCHANGED <<busVars, wireVars, sendVars, eventVars, tokenVars>>

\* start(), reloads, sessions with one frame and its work, and shutdown;
\* of the sessions, those that close() has closed end
NextShutdown ==
    \/ NextHotSwap
    \/ \E c \in ClientIds : clients[c].websocket = "closed" /\ SessionEnds(c)
    \/ CleanupBegin
    \/ CleanupAfterAwait
    \/ CleanupAfterCloseSession
    \/ CleanupAfterClose

SpecShutdown == Init /\ [][NextShutdown]_vars

(***************************************************************************)
(* Claims about the debounce scheduler (SpecDebounce)                      *)
(***************************************************************************)
TasksOf(k) == {t \in TaskIds : tasks[t].key = k}

\* the tasks created by the schedule calls made before any task of k fired
BurstTasks(k) == {t \in TasksOf(k) : tasks[t].seq <= burst[k]}

Invoked(S) == {t \in S : tasks[t].invoked}

\* C1: Debounce coalescing.  Of the N schedule calls made for a conversation
\* before any delayed task of that conversation has fired, the downstream
\* handler is invoked for exactly one, the last of the N (so with its
\* payload).
C1_Coalescing ==
    \A k \in ConvIds :
        AnyFired(k) =>
            Invoked(BurstTasks(k)) = {t \in TasksOf(k) : tasks[t].seq = burst[k]}

\* a delayed task that is neither cancelled nor finished
Live(t) == tasks[t].pc # "done" /\ ~tasks[t].cancel_req

\* C2: At most one PendingDispatch per key.  For each conversation at most
\* one delayed task is neither cancelled nor finished, and such a task is
\* the one stored in pending_tasks under that conversation.
C2_OnePendingPerKey ==
    \A k \in ConvIds :
        /\ Cardinality({t \in TasksOf(k) : Live(t)}) <= 1
        /\ \A t \in TasksOf(k) : Live(t) => pending_tasks[k] = t

CancelledInDelay(t) == tasks[t].cancelled_at \in {"created", "sleeping"}

\* C3: Cancellation safety.  A delayed task cancelled while it was inside
\* its delay (by a replacing schedule call or by cleanup) never invokes the
\* downstream handler.
C3_CancellationSafety ==
    \A t \in TaskIds : CancelledInDelay(t) => ~tasks[t].invoked

C3_Witness ==
    \E t, u \in TaskIds :
        /\ tasks[t].cancelled_at = "sleeping" /\ tasks[t].pc = "done"
        /\ tasks[u].key = tasks[t].key /\ tasks[u].invoked

\* the steps of the scheduler that are about conversation a
StepFor(a) ==
    \/ Schedule(a)
    \/ \E t \in TasksOf(a) : TaskStep(t)

TaskRecords(b) == [t \in TasksOf(b) |-> tasks[t]]

\* C4: Debounce key independence.  A schedule call, a cancellation or the
\* end of a delayed task for conversation a leaves the pending_tasks entry
\* and every delayed task of any other conversation b as they were.
C4_KeyIndependence ==
    [][\A a, b \in ConvIds :
          (a # b /\ StepFor(a)) =>
              /\ pending_tasks'[b] = pending_tasks[b]
              /\ TaskRecords(b)' = TaskRecords(b)]_vars

C4_Witness ==
    \E t, u \in TaskIds :
        /\ tasks[t].key # tasks[u].key
        /\ tasks[t].cancelled_at = "sleeping" /\ tasks[t].pc = "done"
        /\ tasks[u].pc = "sleeping" /\ pending_tasks[tasks[u].key] = u

(***************************************************************************)
(* Claims about the update router (SpecRouter)                             *)
(***************************************************************************)
\* the step is the arrival of some update
SomeArrival == arrivals' = arrivals + 1

\* the step is the arrival of update ev
Arrival(ev) ==
    /\ ev.conv \in DOMAIN prev_arrival'
    /\ prev_arrival'[ev.conv].content = ev.snippet
    /\ prev_arrival'[ev.conv].age = 0
    /\ HandleConversationUpdate(ev)

\* the step handles update ev and the update is suppressed by the dedup check
Suppressed(ev) ==
    /\ Arrival(ev)
    /\ handlers' = handlers
    /\ finished' = [NoHandler EXCEPT !.outcome = "suppressed"]
    /\ UNCHANGED <<last_processed, pending_tasks, tasks>>

\* the step handles update ev and the update passes the dedup check
PassesDedup(ev) ==
    /\ Arrival(ev)
    /\ ~(handlers' = handlers /\ finished'.outcome = "suppressed")
    /\ last_processed'[ev.conv] = [content |-> ev.snippet, age |-> 0]

\* ev follows, with the same snippet, an update of its conversation that
\* passed the dedup check
RepeatsPassed(ev) ==
    /\ ev.conv \in DOMAIN prev_arrival
    /\ prev_arrival[ev.conv].passed
    /\ prev_arrival[ev.conv].content = ev.snippet

\* C5: Dedup window.  An update that has the same conversation id and
\* snippet as the update of that conversation before it, which passed the
\* dedup check, is suppressed with no effect if it arrives less than 3 s
\* after it, and passes the dedup check if it arrives 3 s or more after it.
C5_DedupWindow ==
    [][SomeArrival => \A ev \in Events :
          (RepeatsPassed(ev) /\ Arrival(ev)) =>
              IF prev_arrival[ev.conv].age < 3
              THEN Suppressed(ev)
              ELSE PassesDedup(ev)]_vars

C5_Witness ==
    /\ "c1" \in DOMAIN prev_arrival
    /\ ~prev_arrival["c1"].passed
    /\ finished = [NoHandler EXCEPT !.outcome = "suppressed"]

\* the update that arrives in the step is stopped neither by the dedup
\* check nor by the type filter
PastStep2 ==
    ~(handlers' = handlers /\ finished'.outcome \in {"suppressed", "not_inbox"})

\* the step handles update ev and the update gets as far as step 3
ReachesStep3(ev) == PastStep2 /\ Arrival(ev)

\* the update is dropped at step 3, with no add-tag, notification,
\* persistence or schedule call
DroppedAtStep3 ==
    /\ handlers' = handlers
    /\ finished' = [NoHandler EXCEPT !.outcome = "agent"]
    /\ UNCHANGED <<pending_tasks, tasks>>

EqualsIgnoringCase(a, b) == Lower(a) = Lower(b)

\* C8 as stated: an update that reaches step 3 is dropped there if and only
\* if its sender display name equals, ignoring case, the display name of
\* some managed resource of the current snapshot.
C8_SelfEchoEqual ==
    [][(SomeArrival /\ PastStep2) => \A ev \in Events :
          ReachesStep3(ev) =>
              (DroppedAtStep3 <=>
                  \E p \in DOMAIN page_configs :
                      EqualsIgnoringCase(ev.sender_name, page_configs[p].page_name))]_vars

\* C8 as amended: an update that reaches step 3 is dropped there if and
\* only if the non-empty display name of some managed resource of the
\* current snapshot occurs, ignoring case, inside its sender display name.
C8_SelfEchoContains ==
    [][(SomeArrival /\ PastStep2) => \A ev \in Events :
          ReachesStep3(ev) =>
              (DroppedAtStep3 <=>
                  \E p \in DOMAIN page_configs :
                      /\ page_configs[p].page_name # <<>>
                      /\ In(Lower(page_configs[p].page_name), Lower(ev.sender_name)))]_vars

C8_Witness == finished = [NoHandler EXCEPT !.outcome = "agent"]

\* the step is the return of the suspended handler at position i
Returns(i) == Len(handlers') < Len(handlers) /\ handlers' = Remove(handlers, i)

CarriesMarker(snippet) ==
    \E j \in 1..Len(snippet) : snippet[j] \in {"[Photo]", "[Video]"}

\* a suspended handler of an update with a marker has made no persistence
\* and no schedule call
NotScheduling(h) == h.pc # "create_or_get" /\ h.persist = 0 /\ h.sched = 0

\* C9 as stated: routing an update with a photo or video marker that is not
\* stopped by steps 1-5 issues exactly one add-tag call when a support tag
\* is configured for its resource and exactly one notification call, and
\* never creates or replaces a pending_tasks entry.
C9_EscalationOneAddTag ==
    [][\A i \in HandlerIds :
          LET h == handlers[i]
          IN  CarriesMarker(h.snippet) =>
                  /\ NotScheduling(h)
                  /\ (Returns(i) /\ finished'.outcome # "handoff") =>
                        /\ finished'.outcome = "escalated"
                        /\ h.support_tag_id # NoTag =>
                              finished'.add_ai + finished'.add_support = 1
                        /\ finished'.notify = 1
                        /\ finished'.persist = 0 /\ finished'.sched = 0
                        /\ UNCHANGED <<pending_tasks, tasks>>]_vars

\* C9 as amended: such an update issues exactly one add-tag call for the
\* support tag when one is configured for its resource and none otherwise
\* (the add-tag call of step 4 for the AI sale tag comes on top when that
\* tag is configured), exactly one notification call, and never creates or
\* replaces a pending_tasks entry.
C9_EscalationShortCircuit ==
    [][\A i \in HandlerIds :
          LET h == handlers[i]
          IN  CarriesMarker(h.snippet) =>
                  /\ NotScheduling(h)
                  /\ (Returns(i) /\ finished'.outcome # "handoff") =>
                        /\ finished'.outcome = "escalated"
                        /\ finished'.add_support =
                              (IF h.support_tag_id # NoTag THEN 1 ELSE 0)
                        /\ finished'.add_ai <= 1
                        /\ finished'.notify = 1
                        /\ finished'.persist = 0 /\ finished'.sched = 0
                        /\ UNCHANGED <<pending_tasks, tasks>>]_vars

C9_Witness ==
    /\ finished.outcome = "escalated"
    /\ finished.add_ai = 1 /\ finished.add_support = 1 /\ finished.notify = 1

(***************************************************************************)
(* Claims about reloads and connect tasks (SpecConn, SpecConnFair)         *)
(***************************************************************************)
\* reload r holds the lock: it is somewhere in steps 1-4 or in the
\* emergency recovery
InProgress(r) == reloads[r].pc \notin {"waiting", "done"}

\* C6: Reload mutual exclusion.  At no time are two runs of
\* _graceful_reload (emergency recovery included) in progress together, and
\* a reload triggered after another one begins its step 1 only after the
\* earlier one has finished.
C6_ReloadMutualExclusion ==
    /\ Cardinality({r \in ReloadIds : InProgress(r)}) <= 1
    /\ \A r1, r2 \in ReloadIds :
          (r1 < r2 /\ reloads[r2].pc # "waiting") => reloads[r1].pc = "done"

C6_Witness ==
    \E r1, r2 \in ReloadIds :
        /\ reloads[r1].pc = "recovery_loading"
        /\ reloads[r2].pc = "waiting"

\* C7: At most one active connect task.  In every state after the service
\* has started at most one connect task is unfinished, the task created by
\* start() counted as well as those created by reloads and recoveries.
\* (A task counts from the moment it runs connect(), so that a task that
\* was created and has not run yet is not taken for a second active one.)
C7_OneConnectTask ==
    Cardinality({c \in ClientIds : clients[c].pc \notin {"start", "done"}}) <= 1

\* the step ends a session of client c
SessionEnded(c) ==
    /\ clients[c].pc \in {"joining", "reading"}
    /\ clients'[c].pc \notin {"joining", "reading"}

\* close() was not called on client c and its task was not cancelled
LeftRunning(c) == clients[c].should_reconnect /\ ~clients[c].cancel_req

AllChannels(page_ids) ==
    <<[kind |-> "users", id |-> None]>> \o
    [i \in 1..Len(page_ids) |-> [kind |-> "pages", id |-> page_ids[i]]]

\* a session that ends on a client left running clears websocket and
\* connected and starts the delay; the delay ends after 5 s and only with a
\* new connect attempt; an attempt that gets to read has joined the user
\* channel and the channel of every page id
ReconnectSteps(c) ==
    /\ (SessionEnded(c) /\ LeftRunning(c)) =>
          /\ clients'[c].websocket = "none" /\ ~clients'[c].connected
          /\ clients'[c].pc = "sleeping" /\ clients'[c].elapsed = 0
    /\ (clients[c].pc = "sleeping" /\ clients'[c].pc # "sleeping"
            /\ LeftRunning(c)) =>
          /\ clients[c].elapsed = 5
          /\ clients'[c].pc = "handshake"
    /\ (clients[c].pc # "reading" /\ clients'[c].pc = "reading") =>
          clients'[c].joined = AllChannels(clients[c].page_ids)

\* C10: Reconnection.  Whenever the session of a client on which close() has
\* not been called ends, the client clears its websocket/connected state,
\* waits 5 s and then starts a new connect attempt, which joins the user
\* channel and the channel of every page id again; this repeats without
\* bound.
C10_Reconnection ==
    /\ [][\A c \in ClientIds : ReconnectSteps(c)]_vars
    /\ \A c \in 1..(MaxReloads + 1) :
          (c \in ClientIds /\ clients[c].pc = "sleeping") ~>
              (c \in ClientIds /\
                  (clients[c].pc = "handshake" \/ ~LeftRunning(c)))

C10_Witness ==
    \E c \in ClientIds :
        /\ clients[c].retried /\ LeftRunning(c)
        /\ clients[c].pc = "reading"
        /\ Len(clients[c].page_ids) = 2
        /\ clients[c].joined = AllChannels(clients[c].page_ids)

\* close() has been called on client c
Stopped(c) == c \in ClientIds /\ ~clients[c].should_reconnect

\* client c holds no active session
NoSession(c) == c \in ClientIds /\ clients[c].websocket # "open"

\* C11: Stop.  After close() has been called on a client, its connect loop
\* starts no new connect attempt and the client eventually holds no active
\* session, whether close() was called while connected, during a handshake
\* or during the reconnect delay.
C11_Stop ==
    /\ [][\A c \in ClientIds :
             ~clients[c].should_reconnect =>
                 ~(clients[c].pc # "handshake" /\ clients'[c].pc = "handshake")]_vars
    /\ \A c \in 1..(MaxReloads + 1) : Stopped(c) ~> [](NoSession(c))

\* step 3 of reload r raises in this step: the snapshot it loaded has a
\* page id that int() rejects
Step3Raises(r) ==
    /\ reloads[r].pc = "loading" /\ reloads'[r].pc # "loading"
    /\ \E k \in DOMAIN page_configs' : k \notin {"1", "2", "3"}

InRecovery(pc) == pc \in {"recovery_closing", "recovery_loading"}

\* C12: Reconfiguration failure.  If a step of _graceful_reload raises,
\* _emergency_recovery runs exactly once for that reload (and it runs for no
\* other reason); if the recovery raises too, the error is logged and
\* nothing propagates: the reload ends and the process keeps running.
C12_ReconfigurationFailure ==
    /\ [][\A r \in ReloadIds :
             /\ Step3Raises(r) =>
                   /\ reloads'[r].recoveries = 1
                   /\ InRecovery(reloads'[r].pc)
             /\ reloads'[r].recoveries # reloads[r].recoveries => Step3Raises(r)]_vars
    /\ [](\A r \in ReloadIds :
             /\ reloads[r].recoveries <= 1
             /\ InRecovery(reloads[r].pc) => reloads[r].recoveries = 1
             /\ reloads[r].outcome # "raised"
             /\ reloads[r].pc = "done" =>
                   IF reloads[r].recoveries = 0
                   THEN reloads[r].outcome = "ok"
                   ELSE reloads[r].outcome \in {"recovered", "logged"})

\* a reload whose recovery failed is over, and the next reload has run
C12_Witness ==
    \E r1, r2 \in ReloadIds :
        /\ r1 < r2
        /\ reloads[r1].outcome = "logged" /\ reloads[r1].recoveries = 1
        /\ reloads[r2].pc = "done" /\ reloads[r2].outcome = "ok"

\* reload r has been triggered / has released the lock again
Triggered(r) == r \in ReloadIds

Over(r) == r \in ReloadIds /\ reloads[r].pc = "done"

\* C13: No stuck mutex.  Every reload trigger eventually acquires the reload
\* lock and releases it again, whatever fails in steps 1-4 and in the
\* recovery; the lock is held only while a reload is in progress, so the
\* queue of triggers drains.
C13_NoStuckMutex ==
    /\ [](reload_lock.locked => \E r \in ReloadIds : InProgress(r))
    /\ \A r \in 1..MaxReloads : Triggered(r) ~> Over(r)
    /\ reload_lock.locked ~> ~reload_lock.locked

\* two reloads are over, the first after a failed recovery, and the lock is
\* free
C13_Witness ==
    /\ ~reload_lock.locked /\ reload_lock.waiters = <<>>
    /\ \E r1, r2 \in ReloadIds :
          /\ r1 < r2
          /\ reloads[r1].outcome = "logged"
          /\ reloads[r2].outcome = "recovered"


(***************************************************************************)
(* C14  Event Bus emit completeness: emit(event) calls every listener      *)
(* subscribed to the kind of the event and every catch-all listener, one   *)
(* call for each registration, in that order, and it has returned only     *)
(* when every one of those calls is over, whether it returned or raised.   *)
(***************************************************************************)
Emitted == Len(emits') = Len(emits) + 1

ListenersOf(calls) == [i \in 1..Len(calls) |-> calls[i].listener]

C14_EmitCompleteness ==
    /\ [][Emitted =>
            LET e == emits'[Len(emits')]
            IN  ListenersOf(e.calls) = Specific(e.kind) \o global_subscribers]_vars
    /\ [](\A e \in EmitIds :
            emits[e].pc = "returned" =>
                \A i \in 1..Len(emits[e].calls) : Completed(emits[e].calls[i]))

\* an emit has returned after a listener registered under the kind and as a
\* catch-all was called once for each registration, one call having raised
C14_Witness ==
    \E e \in EmitIds :
        /\ emits[e].pc = "returned"
        /\ Len(emits[e].calls) = 2
        /\ Specific(emits[e].kind) = <<"handle_page_event">>
        /\ global_subscribers = <<"handle_page_event">>
        /\ ListenersOf(emits[e].calls) = <<"handle_page_event", "handle_page_event">>
        /\ emits[e].calls[1].state = "failed"
        /\ emits[e].calls[2].state = "ok"

(***************************************************************************)
(* C15  Event Bus failure isolation: when one listener raises during       *)
(* emit(event), the calls of the other listeners are left as they are,     *)
(* none of them is cancelled or skipped, emit goes on waiting for them,    *)
(* and it then returns normally.                                           *)
(***************************************************************************)
Raises(e, i) ==
    /\ e \in EmitIds
    /\ i \in 1..Len(emits[e].calls)
    /\ emits[e].calls[i].state = "running"
    /\ emits'[e].calls[i].state = "failed"

C15_FailureIsolation ==
    /\ [][\A e \in 1..MaxEmits, i \in 1..MaxSubs :
            Raises(e, i) =>
                /\ emits'[e].pc = emits[e].pc
                /\ \A j \in 1..Len(emits[e].calls) :
                      j # i => emits'[e].calls[j] = emits[e].calls[j]]_vars
    /\ [](\A e \in EmitIds :
            /\ \A i \in 1..Len(emits[e].calls) :
                  emits[e].calls[i].state # "cancelled"
            /\ emits[e].pc = "returned" => emits[e].result = "normal")

\* the first listener raised while the second had not started; the second
\* then ran to its end and emit returned
C15_Witness ==
    \E e \in EmitIds :
        /\ Len(emits[e].calls) = 2
        /\ emits[e].calls[1].state = "failed"
        /\ emits[e].calls[2].state = "ok"
        /\ emits[e].calls[2].thread
        /\ emits[e].pc = "returned"
        /\ emits[e].result = "normal"

(***************************************************************************)
(* C17  Frame dispatch independence: while the handler of an inbound frame *)
(* is suspended, the read loop of a session that is still open can take    *)
(* the next frame, and the task made for a frame can start its handler; no *)
(* handler blocks the reading of later frames.                             *)
(***************************************************************************)
Reading(c) ==
    /\ clients[c].pc = "reading"
    /\ clients[c].websocket = "open"
    /\ ~clients[c].cancel_req

C17_FrameDispatchIndependence ==
    /\ \A c \in ClientIds :
          Reading(c) /\ Len(dispatches) < MaxFrames =>
              \A frame \in Frames : ENABLED ReadFrame(c, frame)
    /\ \A d \in DispatchIds :
          dispatches[d].pc = "created" =>
              ENABLED (\E raises \in Raising : DispatchStart(d, raises))

\* the second frame was read while the handler of the first was suspended,
\* and its own handler was called while the first was still suspended
C17_Witness ==
    /\ Len(dispatches) = 2
    /\ dispatches[1].pc = "in_handler"
    /\ dispatches[2].overtook
    /\ dispatches[2].pc = "in_handler"
    /\ Len(dispatches[2].invoked) = 1

(***************************************************************************)
(* C18  Handler failure isolation: an exception raised by a registered     *)
(* handler is caught where the frame is dispatched: the clients (session,  *)
(* connect task) are left as they are, the task of the frame goes on, and  *)
(* when it ends every handler registered for the event has been called.    *)
(***************************************************************************)
Dispatched(d) ==
    /\ Parse(dispatches[d].frame).log = "event"
    /\ Parse(dispatches[d].frame).event # ""

CaughtStep(d) ==
    /\ d \in DispatchIds
    /\ Len(dispatches'[d].caught) > Len(dispatches[d].caught)

Ends(d) ==
    /\ d \in DispatchIds
    /\ dispatches[d].pc # "done"
    /\ dispatches'[d].pc = "done"

C18_HandlerFailureIsolation ==
    [][\A d \in 1..MaxFrames :
          /\ CaughtStep(d) =>
                /\ clients' = clients
                /\ dispatches'[d].pc \in {"in_handler", "done"}
          /\ Ends(d) /\ Dispatched(d) =>
                [i \in 1..Len(dispatches'[d].invoked) |->
                    dispatches'[d].invoked[i].handler] = HandlersOf(dispatches[d])]_vars

\* the first of two handlers raised, the second was called all the same,
\* and the session the frame came from is still being read
C18_Witness ==
    \E d \in DispatchIds :
        /\ dispatches[d].pc = "done"
        /\ dispatches[d].caught = <<1>>
        /\ Len(dispatches[d].invoked) = 2
        /\ Reading(dispatches[d].client)
        /\ ~clients[dispatches[d].client].retried

(***************************************************************************)
(* C19  Malformed inbound frame: a frame that is not valid JSON, is not a  *)
(* list, or is not a list of exactly the five items [ref, ref, channel,    *)
(* event, payload] has no handler called for it.                           *)
(***************************************************************************)
FiveShape(frame) ==
    /\ frame.valid_json
    /\ frame.is_list
    /\ Len(frame.items) = 5

C19_MalformedFrame ==
    \A d \in DispatchIds :
        ~FiveShape(dispatches[d].frame) => dispatches[d].invoked = <<>>

(***************************************************************************)
(* C20  Send without a session: _send_message called while the client has  *)
(* no session fails with a connection error, transmits nothing, takes no   *)
(* ref from the counter and leaves the client (connected flag included)    *)
(* as it was.                                                              *)
(***************************************************************************)
Sent == Len(sends') = Len(sends) + 1

LeavesUntouched(call) ==
    /\ call.raised # ""
    /\ call.frame = <<>>
    /\ call.refs = 0
    /\ clients' = clients

\* no session is active: the session is closed or there is none
C20_SendWithoutSession ==
    [][Sent =>
          LET call == sends'[Len(sends')]
          IN  call.websocket # "open" => LeavesUntouched(call)]_vars

\* no session is active: self.websocket is None
C20_SendWithoutWebsocket ==
    [][Sent =>
          LET call == sends'[Len(sends')]
          IN  call.websocket = "none" =>
                  /\ call.raised = "ConnectionError"
                  /\ LeavesUntouched(call)]_vars

\* _send_message was called on a client that had a session before and has
\* none now, and raised ConnectionError
C20_Witness ==
    \E i \in 1..Len(sends) :
        /\ sends[i].websocket = "none"
        /\ sends[i].raised = "ConnectionError"
        /\ clients[sends[i].client].retried

(***************************************************************************)
(* C16  Hot-swap keeps in-flight work: no step of a reload, failing or     *)
(* not, changes pending_tasks or last_processed, cancels or otherwise      *)
(* touches a delayed dispatch, or touches a handler task that is in        *)
(* flight; with no later message on its key, a delayed dispatch that was   *)
(* pending when the reload was triggered is never asked to cancel.         *)
(***************************************************************************)
ReloadStep == reloads' # reloads

C16_HotSwapKeepsWork ==
    /\ [][ReloadStep =>
            UNCHANGED <<pending_tasks, last_processed, tasks, handlers>>]_vars
    /\ [](\A r \in ReloadIds : \A t \in reloads[r].pending :
            ~tasks[t].cancel_req)

\* a reload that failed, recovery included, is over, and the delayed
\* dispatch that was pending when it was triggered has fired since, its
\* dedup entry still in place
C16_Witness ==
    \E r \in ReloadIds :
        /\ reloads[r].pc = "done"
        /\ reloads[r].outcome = "logged"
        /\ \E t \in reloads[r].pending :
              /\ tasks[t].invoked
              /\ tasks[t].key \in DOMAIN last_processed

(***************************************************************************)
(* C21  The end of a delayed task, however it ends, never removes a        *)
(* pending_tasks entry that refers to another task: when task t ends while *)
(* pending_tasks holds a different task under t's key, the entry is left   *)
(* as it is.                                                               *)
(***************************************************************************)
TaskEnds(t) ==
    /\ t \in TaskIds
    /\ tasks[t].pc # "done"
    /\ tasks'[t].pc = "done"

C21_EndKeepsNewerEntry ==
    [][\A t \in 1..MaxSched :
          TaskEnds(t) /\ pending_tasks[tasks[t].key] # t =>
              pending_tasks'[tasks[t].key] = pending_tasks[tasks[t].key]]_vars

(***************************************************************************)
(* C22  Dispatch is all-or-nothing: a schedule call never asks a task to   *)
(* cancel that has passed its delay and is inside the downstream dispatch, *)
(* and no task that started the dispatch ends interrupted.                 *)
(***************************************************************************)
Scheduled == Len(tasks') = Len(tasks) + 1

C22_DispatchAllOrNothing ==
    /\ [][Scheduled =>
            \A t \in TaskIds :
                tasks[t].pc = "processing" =>
                    tasks'[t].cancel_req = tasks[t].cancel_req]_vars
    /\ [](cleaned \/ \A t \in TaskIds : ~tasks[t].interrupted)

(***************************************************************************)
(* C23  Dispatch uses the last arrived update: a delayed task that fires   *)
(* after it replaced an undispatched task of the same conversation carries *)
(* the update that arrived later of the two (payload is the arrival        *)
(* number of the update the task was scheduled for).                       *)
(***************************************************************************)
Replaced(u, t) ==
    /\ u < t
    /\ tasks[u].key = tasks[t].key
    /\ ~tasks[u].invoked

C23_LastArrivedDispatched ==
    \A t \in TaskIds :
        tasks[t].invoked =>
            \A u \in TaskIds :
                Replaced(u, t) => tasks[u].payload < tasks[t].payload

(***************************************************************************)
(* C24  Dedup check is linearized per key: when an update arrives less     *)
(* than 3 s after the update before it, for the same conversation and with *)
(* the same content, while the handler of that earlier update is still     *)
(* running, the earlier one has passed the dedup check and the later one   *)
(* is suppressed: exactly one of the two passes.                           *)
(***************************************************************************)
\* the handler of the latest arrival is in flight, and ev repeats it
RepeatsRunning(ev) ==
    /\ ev.conv \in DOMAIN prev_arrival
    /\ prev_arrival[ev.conv].age < DedupWindow
    /\ \E h \in HandlerIds :
          /\ handlers[h].uid = arrivals
          /\ handlers[h].conv = ev.conv
          /\ handlers[h].snippet = ev.snippet

C24_DedupLinearized ==
    [][SomeArrival => \A ev \in Events :
          (RepeatsRunning(ev) /\ Arrival(ev)) =>
              /\ prev_arrival[ev.conv].passed
              /\ Suppressed(ev)]_vars

\* the second of two equal updates was suppressed while the handler of the
\* first, which arrived less than 3 s before, is suspended
C24_Witness ==
    /\ arrivals = 2
    /\ finished = [NoHandler EXCEPT !.outcome = "suppressed"]
    /\ \E h \in HandlerIds :
          /\ handlers[h].uid = 1
          /\ handlers[h].conv \in DOMAIN prev_arrival
          /\ prev_arrival[handlers[h].conv].content = handlers[h].snippet
          /\ ~prev_arrival[handlers[h].conv].passed
          /\ last_processed[handlers[h].conv].age < DedupWindow

(***************************************************************************)
(* C25  DedupEntry frame rule: last_processed[c] is written only by an     *)
(* update for c that passes the dedup check, and then with the content of  *)
(* that update and the time of its arrival; an update whose content equals *)
(* the stored content is suppressed, entry untouched, while the entry is   *)
(* less than 3 s old, and is let through once the entry is 3 s old.        *)
(***************************************************************************)
Written(c) ==
    /\ c \in DOMAIN last_processed'
    /\ \/ c \notin DOMAIN last_processed
       \/ last_processed'[c].content # last_processed[c].content
       \/ last_processed'[c].age < last_processed[c].age

RepeatsStored(ev) ==
    /\ ev.conv \in DOMAIN last_processed
    /\ last_processed[ev.conv].content = ev.snippet

HasResult(t) == send_results[t].value # ""

C26_EntryRemovedAfterDispatch ==
    /\ [][\A t \in 1..MaxSched :
            /\ (TaskEnds(t) /\ tasks[t].invoked) =>
                  /\ pending_tasks'[tasks[t].key] = None
                  /\ send_results'[t].value \in SendResults
                  /\ send_results'[t].payload = t
            /\ HasResult(t) => send_results'[t] = send_results[t]]_vars
    /\ [](\A t \in TaskIds :
            /\ (TaskDone(t) /\ tasks[t].cancelled_at = "") =>
                  tasks[t].invoked /\ send_results[t].value \in {"True", "None"}
            /\ HasResult(t) <=> (TaskDone(t) /\ tasks[t].invoked))

C26_Witness ==
    \E t, u \in TaskIds :
        /\ send_results[t].value = "None"
        /\ send_results[u].value = "CancelledError"
        /\ pending_tasks[tasks[t].key] = None
        /\ pending_tasks[tasks[u].key] = None

(***************************************************************************)
(* C27: Hand-off check.  An update that gets past steps 1-3 and whose tag  *)
(* ids contain the support tag id resolved for its page stops at step 5:   *)
(* it makes no notification, persistence or schedule call and no add-tag   *)
(* call for the support tag; the add-tag call of step 4 for the AI sale    *)
(* tag, when that tag is resolved, is the only call it makes and the       *)
(* update stops when that call returns.                                    *)
(***************************************************************************)
\* the update that arrives in the step gets as far as step 4
PastStep3 ==
    ~(handlers' = handlers /\
      finished'.outcome \in {"suppressed", "not_inbox", "agent"})

\* the support tag resolved for the update's page is among its tag ids
TaggedForSupport(tag_ids, support_tag_id) ==
    support_tag_id # NoTag /\ InList(support_tag_id, tag_ids)

\* a handler stopped at step 5 after n add-tag calls for the AI sale tag
HandedOff(n) == [NoHandler EXCEPT !.outcome = "handoff", !.add_ai = n]

C27_HandOffCheck ==
    [][/\ (SomeArrival /\ PastStep3) => \A ev \in Events :
             LET found == ResolveTags(page_configs, ev.page_id)
             IN  (Arrival(ev) /\ TaggedForSupport(StrAll(ev.tags), found.support_tag_id)) =>
                     /\ UNCHANGED <<pending_tasks, tasks>>
                     /\ IF found.ai_sale_tag_id = NoTag
                        THEN handlers' = handlers /\ finished' = HandedOff(0)
                        ELSE /\ Len(handlers') = Len(handlers) + 1
                             /\ History(handlers'[Len(handlers')]) =
                                    [NoHandler EXCEPT !.add_ai = 1]
                             /\ handlers'[Len(handlers')].pc = "add_ai_tag"
       /\ \A i \in HandlerIds :
             LET h == handlers[i]
             IN  TaggedForSupport(h.tags, h.support_tag_id) =>
                     /\ h.pc = "add_ai_tag"
                     /\ Returns(i) =>
                           /\ finished' = HandedOff(1)
                           /\ UNCHANGED <<pending_tasks, tasks>>]_vars

C27_Witness ==
    /\ finished = HandedOff(1)
    /\ arrivals = 2
    /\ \E c \in ConvIds : pending_tasks[c] # None

(***************************************************************************)
(* C28: No automated dispatch after hand-off or escalation.  Once an       *)
(* update of conversation c has been stopped at the hand-off check or has  *)
(* been escalated, no dispatch for c fires unless an update of c is        *)
(* scheduled after that; in particular a dispatch that was pending for c   *)
(* at that moment does not fire.                                           *)
(*                                                                         *)
(* The updates of c2 are comments, which the type filter drops, so every   *)
(* update that is handed off or escalated is one of c1; and finished holds *)
(* the handler that returned last, so while its outcome is "handoff" or    *)
(* "escalated" no update has been scheduled since that stop.               *)
(***************************************************************************)
Routed == {ev.conv : ev \in {e \in Events : e.type = "INBOX"}}

StoppedLast == finished.outcome \in {"handoff", "escalated"}

Fires(t) == ~tasks[t].invoked /\ tasks'[t].invoked

C28_NoDispatchAfterStop ==
    [][StoppedLast =>
          \A t \in TaskIds : tasks[t].key \in Routed => ~Fires(t)]_vars

(***************************************************************************)
(* C29: Type filter.  An update that passes the dedup check and whose type *)
(* is not "INBOX" is dropped in its arrival step with no add-tag,          *)
(* notification, persistence or schedule call; of the state of the service *)
(* the step changes only the entry of the update's conversation in         *)
(* last_processed, which is set to the update's snippet and arrival time.  *)
(***************************************************************************)
DroppedAtStep2 == handlers' = handlers /\ finished' = [NoHandler EXCEPT !.outcome = "not_inbox"]

OnlyEntryChanges(c) ==
    /\ DOMAIN last_processed' = DOMAIN last_processed \cup {c}
    /\ \A k \in DOMAIN last_processed : k # c => last_processed'[k] = last_processed[k]
    /\ UNCHANGED <<page_configs, pending_tasks, tasks, burst, cleaned>>
    /\ UNCHANGED connVars

C29_TypeFilter ==
    [][SomeArrival => \A ev \in Events :
          (PassesDedup(ev) /\ ev.type # "INBOX") =>
              /\ DroppedAtStep2
              /\ last_processed'[ev.conv] = [content |-> ev.snippet, age |-> 0]
              /\ OnlyEntryChanges(ev.conv)]_vars

C29_Witness ==
    /\ finished = [NoHandler EXCEPT !.outcome = "not_inbox"]
    /\ "c2" \in DOMAIN last_processed /\ last_processed["c2"].age = 0
    /\ pending_tasks["c1"] # None
    /\ \E p \in DOMAIN page_configs :
          ResolveTags(page_configs, ToInt(p)).ai_sale_tag_id # NoTag

(***************************************************************************)
(* C30: Tagging failure is not fatal.  When the add-tag call of step 4     *)
(* for the AI sale tag returns, with success or with failure, the update   *)
(* goes on in the same way: it stops at the hand-off check when its tag    *)
(* ids contain the resolved support tag, it is escalated when its snippet  *)
(* carries a marker, and otherwise it makes the persistence call and, when *)
(* a conversation is returned, is scheduled.                               *)
(***************************************************************************)
\* the step resumes the suspended handler at position i
Resumes(i) ==
    \/ Returns(i)
    \/ Len(handlers') = Len(handlers) /\ handlers'[i] # handlers[i]

\* the handler at position i stays suspended, now in the call named by pc
SuspendsIn(i, pc) == Len(handlers') = Len(handlers) /\ handlers'[i].pc = pc

C30_TagFailureNotFatal ==
    [][\A i \in HandlerIds :
          LET h == handlers[i]
          IN  /\ (h.pc = "add_ai_tag" /\ Resumes(i)) =>
                    /\ UNCHANGED <<pending_tasks, tasks, last_processed>>
                    /\ IF TaggedForSupport(h.tags, h.support_tag_id)
                       THEN Returns(i) /\ finished' = HandedOff(1)
                       ELSE IF CarriesMarker(h.snippet)
                       THEN IF h.support_tag_id # NoTag
                            THEN /\ SuspendsIn(i, "add_support_tag")
                                 /\ handlers'[i].add_support = 1
                                 /\ handlers'[i].notify = 0
                            ELSE /\ SuspendsIn(i, "notify")
                                 /\ handlers'[i].notify = 1
                       ELSE /\ SuspendsIn(i, "create_or_get")
                            /\ handlers'[i].persist = 1
              /\ (h.add_ai_failed /\ h.pc = "create_or_get" /\ Returns(i)) =>
                    \/ /\ finished'.outcome = "scheduled"
                       /\ Scheduled
                       /\ pending_tasks'[h.conv] = Len(tasks')
                       /\ tasks'[Len(tasks')].payload = h.uid
                    \/ /\ finished'.outcome = "no_conversation"
                       /\ UNCHANGED <<pending_tasks, tasks>>]_vars

C30_Witness ==
    \E i \in HandlerIds :
        /\ handlers[i].add_ai_failed
        /\ handlers[i].pc = "create_or_get"
        /\ handlers[i].add_ai = 1 /\ handlers[i].persist = 1

(***************************************************************************)
(* C31: Persistence ensure.  When create_or_get_conversation returns no    *)
(* conversation record (nothing found, or an Exception caught inside it),  *)
(* the routing of the update stops: no schedule call is made, and          *)
(* pending_tasks and the delayed tasks are left as they were.              *)
(***************************************************************************)
C31_PersistenceEnsure ==
    [][\A i \in HandlerIds :
          AfterCreateOrGet(i, FALSE) =>
              /\ Returns(i)
              /\ finished' = [History(handlers[i]) EXCEPT !.outcome = "no_conversation"]
              /\ finished'.sched = 0 /\ finished'.persist = 1
              /\ UNCHANGED <<pending_tasks, tasks>>]_vars

C31_Witness ==
    /\ finished.outcome = "no_conversation"
    /\ finished.persist = 1 /\ finished.sched = 0
    /\ \E c \in ConvIds : pending_tasks[c] # None /\ ~tasks[pending_tasks[c]].cancel_req

(***************************************************************************)
(* C32: Configuration error skips the event.  An update of a page that the *)
(* current snapshot does not hold (so that no access token is configured   *)
(* for it) is skipped: no delayed task is scheduled for it.                *)
(***************************************************************************)
Configured(page_id) == Str(page_id) \in DOMAIN page_configs

C32_ConfigErrorSkips ==
    [][\A i \in HandlerIds :
          (Returns(i) /\ Scheduled) => Configured(handlers[i].page_id)]_vars

(***************************************************************************)
(* C33: Connection handle is guarded by the reload lock.  Every step that  *)
(* assigns ws_client or constructs a client with its connect task is made  *)
(* while _reload_lock is held, the steps of start() included.              *)
(***************************************************************************)
AssignsHandle == ws_client' # ws_client \/ Len(clients') # Len(clients)

C33_HandleGuardedByLock == [][AssignsHandle => reload_lock.locked]_vars

(***************************************************************************)
(* C34: Reload post-condition.  When a reload ends without a failure,      *)
(* ws_client is a client constructed by that reload, its page ids are the  *)
(* page ids of the snapshot the reload loaded, handle_conversation_update  *)
(* is registered on it for the conversation-update event, the handler's    *)
(* _connect_task is that client's connect task, which is not done, and     *)
(* every client constructed before it has been stopped (close() has been   *)
(* called on it).                                                          *)
(***************************************************************************)
EndsOk(r) == reloads[r].pc # "done" /\ reloads'[r].pc = "done" /\ reloads'[r].outcome = "ok"

NewHandle ==
    /\ ws_client' = Len(clients) + 1
    /\ Len(clients') = Len(clients) + 1
    /\ clients'[ws_client'].page_ids = IntAll(DOMAIN page_configs')
    /\ HandlersFor(clients'[ws_client'], UpdateConversation) = <<"handle_conversation_update">>
    /\ handler_task' = ws_client'
    /\ clients'[ws_client'].pc # "done"

PreviousStopped == \A c \in ClientIds : ~clients'[c].should_reconnect

C34_ReloadPostCondition ==
    [][\A r \in ReloadIds : EndsOk(r) => NewHandle /\ PreviousStopped]_vars

(***************************************************************************)
(* C35: All notification kinds reload uniformly.  A call of                *)
(* handle_page_event with an event of any of the six kinds starts exactly  *)
(* one run of _graceful_reload; the runs are executed one after another in *)
(* the order of the calls, and every one of them is carried to its end:    *)
(* N notifications make N reconfigurations, none skipped or merged.        *)
(***************************************************************************)
StartsOneReload ==
    /\ Len(reloads') = Len(reloads) + 1
    /\ \A r \in ReloadIds : reloads'[r] = reloads[r]

InTurn ==
    \A r, q \in ReloadIds :
        (r < q /\ reloads[q].pc # "waiting") => reloads[r].pc = "done"

C35_UniformReload ==
    /\ [][\A kind \in PageEventTypes : HandlePageEvent(kind) => StartsOneReload]_vars
    /\ [](Len(reloads) = notified /\ InTurn)
    /\ \A n \in 1..MaxReloads :
          (notified >= n) ~> (n \in ReloadIds /\ reloads[n].pc = "done")

C35_Witness ==
    /\ notified = MaxReloads
    /\ Len(reloads) = MaxReloads
    /\ \A r \in ReloadIds : reloads[r].pc = "done" /\ reloads[r].outcome = "ok"
    /\ ws_client = MaxReloads + 1

(***************************************************************************)
(* C36: Snapshot is current for every reader after a reload.  Once a       *)
(* reload has completed and none is running, _get_page_token finds the     *)
(* token of every page of the snapshot that reload loaded and finds none   *)
(* for a page that is not in it.                                           *)
(***************************************************************************)
Reloaded ==
    /\ reloads # <<>>
    /\ \A r \in ReloadIds : reloads[r].pc = "done"
    /\ start_pc = "done"

C36_SnapshotCurrentForReaders ==
    [][\A page_id \in PageIds :
          (Reloaded /\ GetPageToken(page_id)) =>
              (page_token'.token # "" <=> page_id \in DOMAIN page_configs)]_vars

(***************************************************************************)
(* C37: A failure of the page service while step 3 loads the snapshot is   *)
(* handled as a failure of the reload: the emergency recovery runs, and a  *)
(* current snapshot that is not empty is not replaced by an empty one.     *)
(***************************************************************************)
LoadRaises(r) ==
    \E pages \in Snapshots : AfterLoad(r, LoadPageConfigsFromDb(pages, TRUE))

C37_LoadFailureIsReloadFailure ==
    [][\A r \in ReloadIds :
          (LoadRaises(r) /\ page_configs # EmptyDict) =>
              /\ page_configs' # EmptyDict
              /\ reloads'[r].recoveries = reloads[r].recoveries + 1]_vars

(***************************************************************************)
(* C38: Join sequence.  In every connect attempt whose handshake succeeds  *)
(* the client sends one join frame for the user channel and then one for   *)
(* each of its page ids, in the order of the list, and starts to read only *)
(* when all of them are sent; when the sending of a join frame fails, the  *)
(* attempt is given up without reading and the client takes the way of     *)
(* every ended session: websocket and connected cleared, then the          *)
(* reconnect delay, or the end of the loop after close().                  *)
(***************************************************************************)
IsPrefix(a, b) == Len(a) <= Len(b) /\ \A i \in 1..Len(a) : a[i] = b[i]

JoinSteps(c) ==
    LET all == AllChannels(clients[c].page_ids)
        old == clients[c].joined
        new == clients'[c].joined
    IN  /\ (new # old /\ new # <<>>) =>
              /\ clients[c].pc = "joining"
              /\ Len(old) < Len(all)
              /\ new = Append(old, all[Len(old) + 1])
        /\ (clients[c].pc # "reading" /\ clients'[c].pc = "reading") =>
              clients[c].pc = "joining" /\ new = all
        /\ JoinFailed(c) =>
              /\ clients'[c].websocket = "none" /\ ~clients'[c].connected
              /\ clients'[c].joined = <<>>
              /\ clients'[c].pc =
                    IF clients[c].should_reconnect THEN "sleeping" ELSE "done"

C38_JoinSequence ==
    /\ [][\A c \in ClientIds : JoinSteps(c)]_vars
    /\ [](\A c \in ClientIds :
            /\ IsPrefix(clients[c].joined, AllChannels(clients[c].page_ids))
            /\ clients[c].pc = "reading" =>
                  clients[c].joined = AllChannels(clients[c].page_ids)
            /\ clients[c].pc = "joining" =>
                  Len(clients[c].joined) < Len(AllChannels(clients[c].page_ids)))

C38_Witness ==
    \E c \in ClientIds :
        /\ clients[c].retried
        /\ clients[c].pc = "joining"
        /\ Len(clients[c].joined) = 2
        /\ clients[c].joined[1] = UserChannel

(***************************************************************************)
(* C39: Cancellation in both waiting states.  A connect task whose         *)
(* cancellation was requested while it waits for an inbound frame or       *)
(* sleeps in the reconnect delay does nothing but end: it starts no        *)
(* further connect attempt, its next step ends it with websocket cleared   *)
(* and connected false, and it does end.                                   *)
(***************************************************************************)
Waiting(c) == clients[c].pc \in {"reading", "sleeping"}

CancelRequested(c) == c \in ClientIds /\ clients[c].cancel_req /\ Waiting(c)

\* client c changes, the age of its sleep aside
Acts(c) == [clients'[c] EXCEPT !.elapsed = 0] # [clients[c] EXCEPT !.elapsed = 0]

CancelledDone(c) ==
    /\ c \in ClientIds
    /\ clients[c].pc = "done"
    /\ clients[c].websocket = "none"
    /\ ~clients[c].connected

CancelSteps(c) ==
    /\ clients[c].cancel_req =>
          ~(clients[c].pc # "handshake" /\ clients'[c].pc = "handshake")
    /\ (clients[c].cancel_req /\ Waiting(c) /\ Acts(c)) =>
          /\ clients'[c].pc = "done"
          /\ clients'[c].websocket = "none"
          /\ ~clients'[c].connected

C39_CancelInWaitingStates ==
    /\ [][\A c \in ClientIds : CancelSteps(c)]_vars
    /\ \A c \in 1..(MaxReloads + 1) :
          CancelRequested(c) ~> CancelledDone(c)

C39_Witness ==
    \E c \in ClientIds :
        /\ clients[c].cancel_req /\ clients[c].retried
        /\ CancelledDone(c)

(***************************************************************************)
(* C40: Shutdown leaves no background work.  When cleanup() returns,       *)
(* pending_tasks is empty and the connect task of the client that          *)
(* ws_client refers to has been cancelled or is over, whether start() or a *)
(* reload created it; and after cleanup() has returned no delayed dispatch *)
(* that pending_tasks held at its start invokes the downstream handler.    *)
(***************************************************************************)
CleanupReturns == cleanup_call.pc # "done" /\ cleanup_call'.pc = "done"

PendingEmptyAtReturn ==
    [][CleanupReturns => \A k \in ConvIds : pending_tasks'[k] = None]_vars

OwnerCancelledAtReturn ==
    [][CleanupReturns =>
          (ws_client' # None =>
              clients'[ws_client'].cancel_req \/ clients'[ws_client'].pc = "done")]_vars

NoDispatchAfterReturn ==
    [][cleanup_call.pc = "done" =>
          \A t \in cleanup_call.pending : ~Fires(t)]_vars

C40_ShutdownLeavesNoWork ==
    /\ PendingEmptyAtReturn
    /\ NoDispatchAfterReturn
    /\ OwnerCancelledAtReturn

=============================================================================
